---- MODULE Spec2Model ----
(***************************************************************************)
(* The statistical aggregation engine of cricket_data_analyzer:            *)
(*   betting_markets.py  calculate_betting_markets and its helpers         *)
(*   app.py              get_betting_market_summary_dict,                  *)
(*                       get_player_summaries_single_match,                *)
(*                       process_all_files                                 *)
(*                                                                         *)
(* Spec          walks ONE match record delivery by delivery through the   *)
(*               loop of _calculate_match_stats and the loop of            *)
(*               get_betting_market_summary_dict, then appends the match   *)
(*               to the markets.                                           *)
(* SpecCorpus    runs calculate_betting_markets' loop over a corpus, one   *)
(*               match per step, then _calculate_market_summaries.         *)
(* SpecSummary   applies the summary statistics and the over/under         *)
(*               analysis to bounded samples.                              *)
(* SpecPlayers   runs process_all_files' player aggregation over a         *)
(*               corpus, one match per step.                               *)
(***************************************************************************)
EXTENDS Integers, Sequences, FiniteSets, TLC

VARIABLES
    pc,          \* position of the pass that is running
    match_data,  \* the match record read so far: [teams, innings]
    ms,          \* _calculate_match_stats: stats and the loop's locals
    sm,          \* get_betting_market_summary_dict: inning_stats and locals
    summary,     \* <<>> or <<summary_dict>>: the result of the summary pass
    markets,     \* calculate_betting_markets: the markets dictionary
    tallies,     \* the categorical markets of the markets dictionary
    corpus,      \* the matches handed to calculate_betting_markets so far
    summaries,   \* the statistics _calculate_market_summaries adds
    sample,      \* SpecSummary: the data list of one market
    market_name, \* SpecSummary: the market's name
    custom_line, \* SpecSummary: the caller's line
    market_summary,  \* SpecSummary: <<>> or <<statistics of the market>>
    custom_result,   \* SpecSummary: <<>> or <<calculate_custom_over_under>>
    files,       \* process_all_files: the uploaded files read so far
    all_match_data,       \* the raw match list it returns
    all_market_summaries, \* one market summary per match
    all_match_summaries,  \* one match summary per match
    all_ball_by_ball,     \* one row per delivery
    errors,      \* the positions in files of the files reported by st.error
    ok_files,    \* the files whose player tables were appended
    all_batting, \* the per-match batting tables
    all_bowling, \* the per-match bowling tables
    agg_batting, \* the aggregated batting table
    agg_bowling, \* the aggregated bowling table
    all_deliveries,  \* calculate_markov_chain_stats: the tagged deliveries
    over_tally,      \* its counters of overs by boundaries hit
    markov_stats,    \* <<>> or <<the dictionary it returns>>
    venue_summary,   \* <<>> or <<the result of calculate_venue_wise_stats>>
    team_summary     \* <<>> or <<the result of calculate_team_wise_stats>>

matchVars == <<match_data, ms, sm, summary>>

corpusVars == <<markets, tallies, corpus, summaries>>

summaryVars == <<sample, market_name, custom_line, market_summary, custom_result>>

playerVars ==
    <<files, all_match_data, all_market_summaries, all_match_summaries,
      all_ball_by_ball, errors, ok_files, all_batting, all_bowling,
      agg_batting, agg_bowling>>

analysisVars ==
    <<all_deliveries, over_tally, markov_stats, venue_summary, team_summary>>

vars == <<pc, matchVars, corpusVars, summaryVars, playerVars, analysisVars>>

----------------------------------------------------------------------------
(* Bounds of the explored inputs *)

MaxInnings == 2   \* innings per match (Spec)
MaxBalls == 2     \* deliveries per match (Spec)

(* Program constants *)

First6 == 6
First10 == 10
First15 == 15

----------------------------------------------------------------------------
(* Generic helpers *)

Max(a, b) == IF a > b THEN a ELSE b

RECURSIVE SumSeq(_)
SumSeq(s) == IF s = <<>> THEN 0 ELSE Head(s) + SumSeq(Tail(s))

Last(s) == s[Len(s)]

(* the sum of f over the set S *)
RECURSIVE SumOver(_, _)
SumOver(f, S) ==
    IF S = {} THEN 0
    ELSE LET x == CHOOSE y \in S : TRUE IN f[x] + SumOver(f, S \ {x})

----------------------------------------------------------------------------
(* Input records (spec.md section 6; the keys the code reads)              *)
(*   delivery: runs_batter / runs_extras / runs_total are runs.batter,     *)
(*   runs.extras and runs.total; extras is the set of keys of the          *)
(*   delivery's 'extras' entry (empty when there is none); wickets is the  *)
(*   list of dismissal kinds (empty when the delivery has no 'wickets').   *)

Teams == {"A", "B"}

(* info.players: the squads; every delivery of Spec and SpecCorpus is
   batted by p1 of team A and bowled by p2 of team B *)
Squads == [A |-> {"p1"}, B |-> {"p2"}]

Delivery(b, e, keys, w) ==
    [batter |-> "p1", bowler |-> "p2", runs_batter |-> b, runs_extras |-> e,
     runs_total |-> b + e, extras |-> keys, wickets |-> w]

(* a raw record whose runs.total is not runs.batter + runs.extras *)
Miscounted == [Delivery(1, 0, {}, <<>>) EXCEPT !.runs_total = 2]

Deliveries ==
    { Delivery(b, 0, {}, w) : b \in {0, 1}, w \in {<<>>, <<"caught">>} }
    \cup { Delivery(b, 0, {}, <<>>) : b \in {4, 6} }
    \cup { Delivery(0, 1, {"wides"}, w) : w \in {<<>>, <<"caught">>} }
    \cup { Miscounted }

OverNumbers == {0, 6}

IsLegal(d) == d.extras \cap {"wides", "noballs"} = {}

HasWicket(d) == d.wickets # <<>>

----------------------------------------------------------------------------
(* betting_markets.py: _calculate_match_stats                              *)

InitTeamStats ==
    [runs |-> 0, fours |-> 0, sixes |-> 0, boundaries |-> 0,
     wickets_caught |-> 0, highest_individual |-> 0,
     most_runs_single_over |-> 0, opening_partnership |-> 0]

(* first_scoring_shot is <<>> for None and <<category>> for a category *)
NoShot == <<>>

InitStats ==
    [total_runs |-> 0, total_fours |-> 0, total_sixes |-> 0,
     total_boundaries |-> 0, team_stats |-> <<>>,
     highest_individual_score |-> 0, most_runs_single_over |-> 0,
     first_wicket_runs |-> 0, runs_first_6 |-> 0, runs_first_10 |-> 0,
     runs_first_15 |-> 0, total_runs_out |-> 0,
     opening_partnerships |-> <<>>,
     first_ball_dot |-> FALSE, first_scoring_shot |-> NoShot]

(* stats plus the locals of the three nested loops *)
InitMs ==
    [stats |-> InitStats, inning_idx |-> -1, team |-> "",
     batsman_scores |-> <<>>, current_partnership |-> 0,
     wickets_fallen |-> 0, first_wicket_found |-> FALSE,
     over_idx |-> -1, over_runs |-> 0, over_boundaries |-> 0,
     first_ball_processed |-> FALSE]

(* the kinds k for which  'caught' in k  holds *)
CaughtKinds == {"caught", "caught and bowled"}

RECURSIVE CountCaught(_)
CountCaught(ws) ==
    IF ws = <<>> THEN 0
    ELSE (IF Head(ws) \in CaughtKinds THEN 1 ELSE 0) + CountCaught(Tail(ws))

(* head of the innings loop: the team's entry and the innings' locals *)
InningsStart(m, team) ==
    LET ts == m.stats.team_stats
        ts1 == IF team \in DOMAIN ts THEN ts ELSE ts @@ (team :> InitTeamStats)
    IN [m EXCEPT !.stats.team_stats = ts1,
                 !.inning_idx = @ + 1,
                 !.team = team,
                 !.batsman_scores = <<>>,
                 !.current_partnership = 0,
                 !.wickets_fallen = 0,
                 !.first_wicket_found = FALSE,
                 !.over_idx = -1]

(* head of the overs loop *)
OverStart(m) ==
    [m EXCEPT !.over_idx = @ + 1, !.over_runs = 0, !.over_boundaries = 0]

(* mutation: the partnership keeps growing after the first wicket *)
PartnershipAfterEveryBall(m, d) == m.current_partnership + d.runs_batter

(* the opening partnership grows by the runs off the bat while no wicket
   has fallen *)
PartnershipAfter(m, d) ==
    IF m.wickets_fallen = 0
    THEN m.current_partnership + d.runs_batter
    ELSE m.current_partnership

(* the phase-wise runs of the first innings, by the over's position *)
PhaseRuns(m, d, limit, old) ==
    IF m.inning_idx = 0 /\ m.over_idx < limit THEN old + d.runs_total ELSE old

CategorizeRuns(runs) ==
    IF runs = 1 THEN "single"
    ELSE IF runs = 2 THEN "two"
    ELSE IF runs = 3 THEN "three"
    ELSE IF runs = 4 THEN "four"
    ELSE IF runs = 6 THEN "six"
    ELSE "others"

(* mutation: every delivery is taken for the first ball *)
IsFirstBallAlways(m, d) == TRUE

(* the first-ball analysis runs on the first delivery that is neither a
   wide nor a no-ball *)
IsFirstBall(m, d) == ~m.first_ball_processed /\ IsLegal(d)

(* body of the deliveries loop *)
BallStep(m, d) ==
    LET runs == d.runs_batter
        fb == IsFirstBall(m, d)
        total_runs == d.runs_total
        t == m.team
        bs == m.batsman_scores
        bs1 == IF d.batter \in DOMAIN bs
               THEN [bs EXCEPT ![d.batter] = @ + runs]
               ELSE bs @@ (d.batter :> runs)
        cp == PartnershipAfter(m, d)
        four == IF runs = 4 THEN 1 ELSE 0
        six == IF runs = 6 THEN 1 ELSE 0
        wk == HasWicket(d)
        first == wk /\ ~m.first_wicket_found
        st == m.stats
        tst == st.team_stats[t]
        tst1 == [tst EXCEPT
                   !.runs = @ + total_runs,
                   !.fours = @ + four,
                   !.sixes = @ + six,
                   !.opening_partnership = IF first THEN cp ELSE @,
                   !.wickets_caught = @ + CountCaught(d.wickets)]
        st1 == [st EXCEPT
                   !.first_ball_dot = IF fb THEN total_runs = 0 ELSE @,
                   !.first_scoring_shot =
                       IF fb /\ runs > 0 THEN <<CategorizeRuns(runs)>> ELSE @,
                   !.total_runs = @ + total_runs,
                   !.total_fours = @ + four,
                   !.total_sixes = @ + six,
                   !.first_wicket_runs = IF first THEN cp ELSE @,
                   !.opening_partnerships = IF first THEN Append(@, cp) ELSE @,
                   !.runs_first_6 = PhaseRuns(m, d, First6, @),
                   !.runs_first_10 = PhaseRuns(m, d, First10, @),
                   !.runs_first_15 = PhaseRuns(m, d, First15, @),
                   !.team_stats = [@ EXCEPT ![t] = tst1]]
    IN [m EXCEPT !.stats = st1,
                 !.batsman_scores = bs1,
                 !.current_partnership = cp,
                 !.over_runs = @ + total_runs,
                 !.over_boundaries = @ + four + six,
                 !.wickets_fallen = IF wk THEN @ + 1 ELSE @,
                 !.first_wicket_found = @ \/ wk,
                 !.first_ball_processed = @ \/ fb]

(* after the deliveries of an over: the most expensive over *)
OverEnd(m) ==
    [m EXCEPT
       !.stats.most_runs_single_over = Max(@, m.over_runs),
       !.stats.team_stats[m.team].most_runs_single_over = Max(@, m.over_runs)]

RECURSIVE MaxOf(_, _)
MaxOf(f, S) ==
    IF S = {} THEN 0
    ELSE LET x == CHOOSE y \in S : TRUE IN Max(f[x], MaxOf(f, S \ {x}))

RECURSIVE ExtrasOfDeliveries(_)
ExtrasOfDeliveries(ds) ==
    IF ds = <<>> THEN 0 ELSE Head(ds).runs_extras + ExtrasOfDeliveries(Tail(ds))

RECURSIVE ExtrasOfOvers(_)
ExtrasOfOvers(os) ==
    IF os = <<>> THEN 0
    ELSE ExtrasOfDeliveries(Head(os).deliveries) + ExtrasOfOvers(Tail(os))

(* after the overs of an innings: the individual scores, then the second
   pass over the innings that sums the extras *)
InningsEnd(m, inning) ==
    LET bs == m.batsman_scores
        team_highest == MaxOf(bs, DOMAIN bs)
        m1 == IF DOMAIN bs # {}
              THEN [m EXCEPT
                      !.stats.team_stats[m.team].highest_individual = team_highest,
                      !.stats.highest_individual_score = Max(@, team_highest)]
              ELSE m
    IN [m1 EXCEPT !.stats.total_runs_out = @ + ExtrasOfOvers(inning.overs)]

(* after the innings loop: boundaries = fours + sixes *)
MatchEnd(m) ==
    LET st == m.stats
        ts == [t \in DOMAIN st.team_stats |->
                 [st.team_stats[t] EXCEPT
                    !.boundaries = st.team_stats[t].fours + st.team_stats[t].sixes]]
    IN [st EXCEPT !.total_boundaries = st.total_fours + st.total_sixes,
                  !.team_stats = ts]

(* the same loops run over a whole match record *)
RECURSIVE WalkDeliveries(_, _)
WalkDeliveries(m, ds) ==
    IF ds = <<>> THEN m ELSE WalkDeliveries(BallStep(m, Head(ds)), Tail(ds))

RECURSIVE WalkOvers(_, _)
WalkOvers(m, os) ==
    IF os = <<>> THEN m
    ELSE WalkOvers(OverEnd(WalkDeliveries(OverStart(m), Head(os).deliveries)),
                   Tail(os))

(* mutation: only the first innings is walked *)
WalkFirstInnings(m, is) ==
    IF is = <<>> THEN m
    ELSE InningsEnd(WalkOvers(InningsStart(m, Head(is).team), Head(is).overs),
                    Head(is))

RECURSIVE WalkInnings(_, _)
WalkInnings(m, is) ==
    IF is = <<>> THEN m
    ELSE WalkInnings(
           InningsEnd(WalkOvers(InningsStart(m, Head(is).team), Head(is).overs),
                      Head(is)),
           Tail(is))

CalculateMatchStats(md) == MatchEnd(WalkInnings(InitMs, md.innings))

----------------------------------------------------------------------------
(* betting_markets.py: the numeric markets of calculate_betting_markets    *)

(* the markets every processed match appends to *)
MatchMarkets ==
    {"total_runs", "match_fours", "match_sixes", "match_boundaries",
     "highest_individual_score", "most_runs_single_over",
     "runs_first_6_overs", "runs_first_10_overs", "runs_first_15_overs",
     "total_runs_out"}

HomeMarkets ==
    {"home_total_fours", "home_total_sixes", "home_total_boundaries",
     "home_highest_individual", "home_most_runs_single_over",
     "home_wickets_caught"}

AwayMarkets ==
    {"away_total_fours", "away_total_sixes", "away_total_boundaries",
     "away_highest_individual", "away_most_runs_single_over",
     "away_wickets_caught"}

NumericMarkets ==
    MatchMarkets \cup HomeMarkets \cup AwayMarkets
    \cup {"runs_at_fall_first_wicket", "highest_opening_partnership"}

(* the sample list of every numeric market, empty at the start *)
InitMarkets == [k \in NumericMarkets |-> <<>>]

(* the value a match appends to a market of MatchMarkets *)
MatchValue(k, st) ==
    CASE k = "total_runs" -> st.total_runs
      [] k = "match_fours" -> st.total_fours
      [] k = "match_sixes" -> st.total_sixes
      [] k = "match_boundaries" -> st.total_boundaries
      [] k = "highest_individual_score" -> st.highest_individual_score
      [] k = "most_runs_single_over" -> st.most_runs_single_over
      [] k = "runs_first_6_overs" -> st.runs_first_6
      [] k = "runs_first_10_overs" -> st.runs_first_10
      [] k = "runs_first_15_overs" -> st.runs_first_15
      [] k = "total_runs_out" -> st.total_runs_out

(* the value a team's entry appends to a home_ or away_ market *)
TeamValue(k, tst) ==
    CASE k \in {"home_total_fours", "away_total_fours"} -> tst.fours
      [] k \in {"home_total_sixes", "away_total_sixes"} -> tst.sixes
      [] k \in {"home_total_boundaries", "away_total_boundaries"} -> tst.boundaries
      [] k \in {"home_highest_individual", "away_highest_individual"} ->
             tst.highest_individual
      [] k \in {"home_most_runs_single_over", "away_most_runs_single_over"} ->
             tst.most_runs_single_over
      [] k \in {"home_wickets_caught", "away_wickets_caught"} -> tst.wickets_caught

(* mutation: the first-wicket score is appended for every match *)
FirstWicketRecordedAlways(st) == TRUE

(* runs_at_fall_first_wicket is appended only for a positive value *)
FirstWicketRecorded(st) == st.first_wicket_runs > 0

(* the home_ (away_) markets are appended only when the first (second)
   listed team has an entry in team_stats *)
TeamBatted(st, team) == team \in DOMAIN st.team_stats

UpdateMarketsWithMatchStats(mk, st, teams) ==
    [k \in NumericMarkets |->
       CASE k \in MatchMarkets -> Append(mk[k], MatchValue(k, st))
         [] k = "runs_at_fall_first_wicket" ->
              IF FirstWicketRecorded(st)
              THEN Append(mk[k], st.first_wicket_runs) ELSE mk[k]
         [] k = "highest_opening_partnership" ->
              mk[k] \o st.opening_partnerships
         [] k \in HomeMarkets ->
              IF Len(teams) >= 2 /\ TeamBatted(st, teams[1])
              THEN Append(mk[k], TeamValue(k, st.team_stats[teams[1]]))
              ELSE mk[k]
         [] k \in AwayMarkets ->
              IF Len(teams) >= 2 /\ TeamBatted(st, teams[2])
              THEN Append(mk[k], TeamValue(k, st.team_stats[teams[2]]))
              ELSE mk[k]]

(* a match that lists fewer than two teams is skipped *)
ProcessMatchForBettingMarkets(md, mk) ==
    IF Len(md.teams) < 2 THEN mk
    ELSE UpdateMarketsWithMatchStats(mk, CalculateMatchStats(md), md.teams)

----------------------------------------------------------------------------
(* betting_markets.py: the categorical markets                             *)

InitTallies ==
    [match_winner |-> [team_1 |-> 0, team_2 |-> 0, tie |-> 0, no_result |-> 0],
     toss_winner |-> [team_1 |-> 0, team_2 |-> 0],
     first_ball_dot |-> [yes |-> 0, no |-> 0],
     first_scoring_shot |-> [single |-> 0, two |-> 0, three |-> 0,
                             four |-> 0, six |-> 0, others |-> 0],
     most_sixes |-> [team_1 |-> 0, team_2 |-> 0, tie |-> 0],
     most_fours |-> [team_1 |-> 0, team_2 |-> 0, tie |-> 0]]

(* team_stats.get(team, {}).get(column, 0) *)
TeamColumn(st, team, column) ==
    IF team \in DOMAIN st.team_stats THEN st.team_stats[team][column] ELSE 0

(* mutation: equal totals go to the first listed team *)
ComparativeBucketNoTie(one, two) == IF one >= two THEN "team_1" ELSE "team_2"

(* the bucket of a comparative market *)
ComparativeBucket(one, two) ==
    IF one > two THEN "team_1"
    ELSE IF two > one THEN "team_2"
    ELSE "tie"

UpdateTalliesWithMatchStats(tl, st, teams) ==
    LET dot == IF st.first_ball_dot THEN "yes" ELSE "no"
        t1 == [tl EXCEPT !.first_ball_dot[dot] = @ + 1]
        t2 == IF st.first_scoring_shot # NoShot
              THEN [t1 EXCEPT !.first_scoring_shot[st.first_scoring_shot[1]] = @ + 1]
              ELSE t1
    IN IF Len(teams) >= 2
       THEN LET sixes == ComparativeBucket(TeamColumn(st, teams[1], "sixes"),
                                           TeamColumn(st, teams[2], "sixes"))
                fours == ComparativeBucket(TeamColumn(st, teams[1], "fours"),
                                           TeamColumn(st, teams[2], "fours"))
            IN [t2 EXCEPT !.most_sixes[sixes] = @ + 1,
                          !.most_fours[fours] = @ + 1]
       ELSE t2

(* info.get('outcome', {}).get('winner'): <<>> is None *)
OutcomeWinner(md) == IF "outcome" \in DOMAIN md THEN md.outcome ELSE <<>>

(* info.get('toss', {}).get('winner'): <<>> is None *)
MarketTossWinner(md) ==
    IF "toss" \in DOMAIN md /\ md.toss # <<>> THEN <<md.toss[1].winner>>
    ELSE <<>>

(* mutation: a match without winner counts as a tie *)
MatchWinnerBucketTieFirst(teams, winner) ==
    IF winner = <<teams[1]>> THEN "team_1"
    ELSE IF winner = <<teams[2]>> THEN "team_2"
    ELSE "tie"

(* the match_winner bucket of a match *)
MatchWinnerBucket(teams, winner) ==
    IF winner = <<teams[1]>> THEN "team_1"
    ELSE IF winner = <<teams[2]>> THEN "team_2"
    ELSE IF winner = <<>> THEN "no_result"
    ELSE "tie"

(* the match winner and toss winner tallies of a match with two teams *)
UpdateOutcomeTallies(tl, md) ==
    LET toss_winner == MarketTossWinner(md)
        t1 == [tl EXCEPT
                 !.match_winner[MatchWinnerBucket(md.teams, OutcomeWinner(md))]
                     = @ + 1]
    IN IF toss_winner = <<md.teams[1]>>
       THEN [t1 EXCEPT !.toss_winner.team_1 = @ + 1]
       ELSE IF toss_winner = <<md.teams[2]>>
       THEN [t1 EXCEPT !.toss_winner.team_2 = @ + 1]
       ELSE t1

(* mutation: only the outcome tallies require two listed teams *)
ProcessMatchForTalliesUnskipped(md, tl) ==
    UpdateTalliesWithMatchStats(
        IF Len(md.teams) < 2 THEN tl ELSE UpdateOutcomeTallies(tl, md),
        CalculateMatchStats(md), md.teams)

(* a match that lists fewer than two teams is skipped *)
ProcessMatchForTallies(md, tl) ==
    IF Len(md.teams) < 2 THEN tl
    ELSE UpdateTalliesWithMatchStats(UpdateOutcomeTallies(tl, md),
                                     CalculateMatchStats(md), md.teams)

(* the loop of calculate_betting_markets over data_list *)
RECURSIVE ProcessMatchesForBettingMarkets(_, _)
ProcessMatchesForBettingMarkets(data_list, mk) ==
    IF data_list = <<>> THEN mk
    ELSE ProcessMatchesForBettingMarkets(
             Tail(data_list), ProcessMatchForBettingMarkets(Head(data_list), mk))

RECURSIVE ProcessMatchesForTallies(_, _)
ProcessMatchesForTallies(data_list, tl) ==
    IF data_list = <<>> THEN tl
    ELSE ProcessMatchesForTallies(
             Tail(data_list), ProcessMatchForTallies(Head(data_list), tl))

----------------------------------------------------------------------------
(* app.py: get_player_summaries_single_match                               *)

InitPlayerStat(t) ==
    [team |-> t, runs |-> 0, balls_faced |-> 0, fours |-> 0, sixes |-> 0,
     runs_conceded |-> 0, balls_bowled |-> 0, wickets |-> 0]

SquadPlayers(players) == UNION { players[t] : t \in DOMAIN players }

(* one zeroed record per squad member *)
InitPlayerStats(players) ==
    [p \in SquadPlayers(players) |->
       InitPlayerStat(CHOOSE t \in DOMAIN players : p \in players[t])]

(* every delivery adds one ball faced and one ball bowled *)
BallsFacedAfter(old, d) == old + 1

BallsBowledAfter(old, d) == old + 1

PlayerBall(ps, d) ==
    LET ps1 == IF d.batter \in DOMAIN ps
               THEN [ps EXCEPT ![d.batter] =
                       [@ EXCEPT !.runs = @ + d.runs_batter,
                                 !.balls_faced = BallsFacedAfter(@, d),
                                 !.fours = @ + (IF d.runs_batter = 4 THEN 1 ELSE 0),
                                 !.sixes = @ + (IF d.runs_batter = 6 THEN 1 ELSE 0)]]
               ELSE ps
    IN IF d.bowler \in DOMAIN ps1
       THEN [ps1 EXCEPT ![d.bowler] =
               [@ EXCEPT !.runs_conceded = @ + d.runs_total,
                         !.balls_bowled = BallsBowledAfter(@, d),
                         !.wickets = @ + (IF HasWicket(d) THEN 1 ELSE 0)]]
       ELSE ps1

RECURSIVE FlattenOvers(_)
FlattenOvers(os) ==
    IF os = <<>> THEN <<>> ELSE Head(os).deliveries \o FlattenOvers(Tail(os))

RECURSIVE FlattenInnings(_)
FlattenInnings(is) ==
    IF is = <<>> THEN <<>>
    ELSE FlattenOvers(Head(is).overs) \o FlattenInnings(Tail(is))

RECURSIVE PlayerWalk(_, _)
PlayerWalk(ps, ds) ==
    IF ds = <<>> THEN ps ELSE PlayerWalk(PlayerBall(ps, Head(ds)), Tail(ds))

PlayerStatsOfMatch(md) ==
    PlayerWalk(InitPlayerStats(md.players), FlattenInnings(md.innings))

BattingRecords(ps) == { p \in DOMAIN ps : ps[p].balls_faced > 0 }

BowlingRecords(ps) == { p \in DOMAIN ps : ps[p].balls_bowled > 0 }

(* sort_values('runs') / sort_values('wickets') on a frame built from no
   record has no such column and raises KeyError *)
PlayerSummariesRaise(md) ==
    LET ps == PlayerStatsOfMatch(md)
    IN BattingRecords(ps) = {} \/ BowlingRecords(ps) = {}

(* Series.round(2): rates are kept in hundredths; num / den rounded to the
   nearest integer, a tie to the even one *)
RoundHalfEven(num, den) ==
    LET q == num \div den
        r == num % den
    IN IF 2 * r < den THEN q
       ELSE IF 2 * r > den THEN q + 1
       ELSE IF q % 2 = 0 THEN q ELSE q + 1

(* Series.replace(0, 1) *)
ReplaceZero(x) == IF x = 0 THEN 1 ELSE x

(* runs / balls_faced.replace(0, 1) * 100, in hundredths *)
StrikeRate(runs, balls) == RoundHalfEven(10000 * runs, ReplaceZero(balls))

(* runs_conceded / (balls_bowled.replace(0, 1) / 6), in hundredths *)
EconomyRate(conceded, balls) ==
    RoundHalfEven(600 * conceded, ReplaceZero(balls))

(* batting_df and bowling_df: one row per record, keyed by player_name *)
BattingTable(md) ==
    LET ps == PlayerStatsOfMatch(md)
    IN [p \in BattingRecords(ps) |->
          [team |-> ps[p].team, runs |-> ps[p].runs,
           balls_faced |-> ps[p].balls_faced, fours |-> ps[p].fours,
           sixes |-> ps[p].sixes,
           strike_rate |-> StrikeRate(ps[p].runs, ps[p].balls_faced)]]

BowlingTable(md) ==
    LET ps == PlayerStatsOfMatch(md)
    IN [p \in BowlingRecords(ps) |->
          [team |-> ps[p].team, runs_conceded |-> ps[p].runs_conceded,
           balls_bowled |-> ps[p].balls_bowled, wickets |-> ps[p].wickets,
           economy_rate |->
               EconomyRate(ps[p].runs_conceded, ps[p].balls_bowled)]]

----------------------------------------------------------------------------
(* app.py: process_all_files, the player tables                            *)

(* groupby(['player_name', 'team']): the keys of the concatenated tables *)
GroupKeys(tables) ==
    UNION { { <<p, tables[i][p].team>> : p \in DOMAIN tables[i] } :
              i \in DOMAIN tables }

InGroup(table, key) == key[1] \in DOMAIN table /\ table[key[1]].team = key[2]

(* .sum() of one column over the rows of a group *)
RECURSIVE GroupSum(_, _, _)
GroupSum(tables, key, column) ==
    IF tables = <<>> THEN 0
    ELSE (IF InGroup(Head(tables), key) THEN Head(tables)[key[1]][column]
          ELSE 0)
         + GroupSum(Tail(tables), key, column)

RECURSIVE GroupSize(_, _)
GroupSize(tables, key) ==
    IF tables = <<>> THEN 0
    ELSE (IF InGroup(Head(tables), key) THEN 1 ELSE 0)
         + GroupSize(Tail(tables), key)

(* the mean of the per-match strike rates of a group *)
MeanOfMatchStrikeRates(tables, key) ==
    RoundHalfEven(GroupSum(tables, key, "strike_rate"),
                  ReplaceZero(GroupSize(tables, key)))

(* the strike rate of a group, recomputed from its summed columns *)
AggStrikeRate(tables, key) ==
    StrikeRate(GroupSum(tables, key, "runs"),
               GroupSum(tables, key, "balls_faced"))

AggEconomyRate(tables, key) ==
    EconomyRate(GroupSum(tables, key, "runs_conceded"),
                GroupSum(tables, key, "balls_bowled"))

AggregateBatting(tables) ==
    [key \in GroupKeys(tables) |->
       [runs |-> GroupSum(tables, key, "runs"),
        balls_faced |-> GroupSum(tables, key, "balls_faced"),
        fours |-> GroupSum(tables, key, "fours"),
        sixes |-> GroupSum(tables, key, "sixes"),
        strike_rate |-> AggStrikeRate(tables, key)]]

AggregateBowling(tables) ==
    [key \in GroupKeys(tables) |->
       [runs_conceded |-> GroupSum(tables, key, "runs_conceded"),
        balls_bowled |-> GroupSum(tables, key, "balls_bowled"),
        wickets |-> GroupSum(tables, key, "wickets"),
        economy_rate |-> AggEconomyRate(tables, key)]]

----------------------------------------------------------------------------
(* app.py: get_betting_market_summary_dict                                 *)
(* fall_of_1st_wicket is <<>> for 'N/A' and <<score>> for a score          *)

NotAvailable == <<>>

InitInningStats(team) ==
    [team |-> team, total_runs |-> 0, powerplay_runs |-> 0,
     runs_overs_7_13 |-> 0, runs_overs_14_20 |-> 0, highest_over |-> 0,
     fall_of_1st_wicket |-> NotAvailable, runs_per_over |-> <<>>,
     first_over_runs |-> 0, fours |-> 0, sixes |-> 0, wickets |-> 0]

InitSm ==
    [inning_stats |-> <<>>, stats |-> InitInningStats(""),
     running_score |-> 0, wicket_fell |-> FALSE]

RECURSIVE TotalOfDeliveries(_)
TotalOfDeliveries(ds) ==
    IF ds = <<>> THEN 0 ELSE Head(ds).runs_total + TotalOfDeliveries(Tail(ds))

(* head of the innings loop *)
SummaryInningsStart(s, team) ==
    [s EXCEPT !.stats = InitInningStats(team),
              !.running_score = 0,
              !.wicket_fell = FALSE]

(* mutation: the first window runs through over number 6 *)
SummaryOverThroughSix(s, over) ==
    LET over_num == over.over
        over_runs == TotalOfDeliveries(over.deliveries)
    IN [s EXCEPT
          !.stats.runs_per_over = Append(@, over_runs),
          !.stats.highest_over = Max(@, over_runs),
          !.stats.powerplay_runs = IF over_num <= 6 THEN @ + over_runs ELSE @,
          !.stats.first_over_runs = IF over_num = 0 THEN over_runs ELSE @,
          !.stats.runs_overs_7_13 =
              IF 6 <= over_num /\ over_num <= 12 THEN @ + over_runs ELSE @,
          !.stats.runs_overs_14_20 =
              IF 13 <= over_num /\ over_num <= 19 THEN @ + over_runs ELSE @]

(* the per-over part of the overs loop: the over's total and its window *)
SummaryOver(s, over) ==
    LET over_num == over.over
        over_runs == TotalOfDeliveries(over.deliveries)
    IN [s EXCEPT
          !.stats.runs_per_over = Append(@, over_runs),
          !.stats.highest_over = Max(@, over_runs),
          !.stats.powerplay_runs = IF over_num < 6 THEN @ + over_runs ELSE @,
          !.stats.first_over_runs = IF over_num = 0 THEN over_runs ELSE @,
          !.stats.runs_overs_7_13 =
              IF 6 <= over_num /\ over_num <= 12 THEN @ + over_runs ELSE @,
          !.stats.runs_overs_14_20 =
              IF 13 <= over_num /\ over_num <= 19 THEN @ + over_runs ELSE @]

(* mutation: the running score counts the runs off the bat only *)
RunningScoreBatterOnly(s, d) ==
    IF ~s.wicket_fell THEN s.running_score + d.runs_batter ELSE s.running_score

(* the running score follows the total runs until the first wicket *)
RunningScoreAfter(s, d) ==
    IF ~s.wicket_fell THEN s.running_score + d.runs_total ELSE s.running_score

(* body of the deliveries loop *)
SummaryBall(s, d) ==
    LET rs == RunningScoreAfter(s, d)
        first == ~s.wicket_fell /\ HasWicket(d)
    IN [s EXCEPT
          !.stats.fours = @ + (IF d.runs_batter = 4 THEN 1 ELSE 0),
          !.stats.sixes = @ + (IF d.runs_batter = 6 THEN 1 ELSE 0),
          !.stats.wickets = @ + (IF HasWicket(d) THEN 1 ELSE 0),
          !.stats.fall_of_1st_wicket = IF first THEN <<rs>> ELSE @,
          !.running_score = rs,
          !.wicket_fell = @ \/ first]

(* mutation: the innings total is the total of its first over *)
TotalOfFirstOver(os) ==
    IF os = <<>> THEN 0 ELSE TotalOfDeliveries(Head(os).deliveries)

RECURSIVE TotalOfOvers(_)
TotalOfOvers(os) ==
    IF os = <<>> THEN 0
    ELSE TotalOfDeliveries(Head(os).deliveries) + TotalOfOvers(Tail(os))

(* after the overs loop: the innings total, and the entry is kept *)
SummaryInningsEnd(s, inning) ==
    [s EXCEPT !.inning_stats =
        Append(@, [s.stats EXCEPT !.total_runs = TotalOfOvers(inning.overs)])]

(* the keys of summary_dict that report the innings *)
SummaryDict(s) ==
    LET n == Len(s.inning_stats)
        i1 == s.inning_stats[1]
        i2 == s.inning_stats[2]
    IN [Innings_1_Runs |-> IF n > 0 THEN i1.total_runs ELSE 0,
        Innings_1_Runs_Overs_1_6 |-> IF n > 0 THEN i1.powerplay_runs ELSE 0,
        Innings_1_Runs_Overs_7_13 |-> IF n > 0 THEN i1.runs_overs_7_13 ELSE 0,
        Innings_1_Runs_Overs_14_20 |-> IF n > 0 THEN i1.runs_overs_14_20 ELSE 0,
        Innings_1_Fall_of_1st_Wicket |->
            IF n > 0 THEN i1.fall_of_1st_wicket ELSE NotAvailable,
        Innings_1_Highest_Over |-> IF n > 0 THEN i1.highest_over ELSE 0,
        Innings_2_Runs |-> IF n > 1 THEN i2.total_runs ELSE 0,
        Innings_2_Runs_Overs_1_6 |-> IF n > 1 THEN i2.powerplay_runs ELSE 0,
        Innings_2_Runs_Overs_7_13 |-> IF n > 1 THEN i2.runs_overs_7_13 ELSE 0,
        Innings_2_Runs_Overs_14_20 |-> IF n > 1 THEN i2.runs_overs_14_20 ELSE 0,
        Innings_2_Fall_of_1st_Wicket |->
            IF n > 1 THEN i2.fall_of_1st_wicket ELSE NotAvailable,
        Innings_2_Highest_Over |-> IF n > 1 THEN i2.highest_over ELSE 0]

----------------------------------------------------------------------------
(* betting_markets.py: _calculate_market_summaries and                     *)
(* calculate_custom_over_under.  A line and a percentage are fractions     *)
(* [num, den]: the quotients the code forms are kept exact.                *)

Frac(n, d) == [num |-> n, den |-> d]

Whole(n) == Frac(n, 1)

(* mutation: a value equal to the line counts as over *)
IsOverOrEqual(value, line) == value * line.den >= line.num

(* value > line *)
IsOver(value, line) == value * line.den > line.num

RECURSIVE OverCount(_, _)
OverCount(data, line) ==
    IF data = <<>> THEN 0
    ELSE (IF IsOver(Head(data), line) THEN 1 ELSE 0) + OverCount(Tail(data), line)

(* sorted(): insertion into an ascending list *)
RECURSIVE Insert(_, _)
Insert(x, s) ==
    IF s = <<>> THEN <<x>>
    ELSE IF x <= Head(s) THEN <<x>> \o s
    ELSE <<Head(s)>> \o Insert(x, Tail(s))

RECURSIVE Sorted(_)
Sorted(s) == IF s = <<>> THEN <<>> ELSE Insert(Head(s), Sorted(Tail(s)))

RECURSIVE MinSeq(_)
MinSeq(s) ==
    IF Len(s) = 1 THEN s[1]
    ELSE LET m == MinSeq(Tail(s)) IN IF Head(s) < m THEN Head(s) ELSE m

RECURSIVE MaxSeq(_)
MaxSeq(s) ==
    IF Len(s) = 1 THEN s[1]
    ELSE LET m == MaxSeq(Tail(s)) IN IF Head(s) > m THEN Head(s) ELSE m

(* mutation: the lower of the two middle elements *)
MedianLower(data) == Sorted(data)[((Len(data) - 1) \div 2) + 1]

(* sorted(data_list)[len(data_list) // 2], with 1-based positions *)
(* mutation: the sample is not sorted before its middle is taken *)
MedianUnsorted(data) == data[(Len(data) \div 2) + 1]

MedianOf(data) == Sorted(data)[(Len(data) \div 2) + 1]

WholeLines(ls) == [i \in DOMAIN ls |-> Whole(ls[i])]

(* over_under_lines.get(market_name, [average]) *)
OverUnderLines(name, average) ==
    CASE name = "total_runs" -> WholeLines(<<300, 320, 340, 360, 380, 400>>)
      [] name = "match_fours" -> WholeLines(<<40, 45, 50, 55, 60>>)
      [] name = "match_sixes" -> WholeLines(<<8, 10, 12, 15, 18, 20>>)
      [] name = "match_boundaries" -> WholeLines(<<50, 55, 60, 65, 70>>)
      [] name = "highest_individual_score" ->
             WholeLines(<<30, 40, 50, 60, 70, 80, 90, 100>>)
      [] name = "most_runs_single_over" -> WholeLines(<<15, 18, 20, 22, 25>>)
      [] name = "runs_first_6_overs" -> WholeLines(<<45, 50, 55, 60>>)
      [] name = "runs_first_10_overs" -> WholeLines(<<80, 90, 100, 110>>)
      [] name = "runs_first_15_overs" -> WholeLines(<<130, 140, 150, 160>>)
      [] name = "runs_at_fall_first_wicket" -> WholeLines(<<20, 25, 30, 35, 40>>)
      [] name = "highest_opening_partnership" ->
             WholeLines(<<25, 30, 35, 40, 45, 50>>)
      [] OTHER -> <<average>>

(* one entry of over_under_analysis *)
OverUnder(data, line) ==
    LET over_count == OverCount(data, line)
        under_count == Len(data) - over_count
    IN [line |-> line,
        over_count |-> over_count,
        under_count |-> under_count,
        over_percentage |-> Frac(over_count * 100, Len(data)),
        under_percentage |-> Frac(under_count * 100, Len(data))]

(* the statistics of one market; <<>> for a market without data *)
MarketSummary(name, data) ==
    IF data = <<>> THEN <<>>
    ELSE LET average == Frac(SumSeq(data), Len(data))
             lines == OverUnderLines(name, average)
         IN << [count |-> Len(data),
                average |-> average,
                median |-> MedianOf(data),
                min |-> MinSeq(data),
                max |-> MaxSeq(data),
                over_under_analysis |->
                    [i \in DOMAIN lines |-> OverUnder(data, lines[i])]] >>

CalculateMarketSummaries(mk) ==
    [k \in DOMAIN mk |-> MarketSummary(k, mk[k])]

(* calculate_custom_over_under; <<>> stands for the 'No data available'
   result *)
CalculateCustomOverUnder(data, line) ==
    IF data = <<>> THEN <<>>
    ELSE LET over_count == OverCount(data, Whole(line))
             under_count == Len(data) - over_count
         IN << [line |-> line,
                over_count |-> over_count,
                under_count |-> under_count,
                total_matches |-> Len(data)] >>

----------------------------------------------------------------------------
(* app.py: calculate_markov_chain_stats and calculate_team_stats.          *)
(* A quotient is kept exact as a fraction [num, den].  A value that may be *)
(* missing is <<>> or <<value>>; the entries for a phase carry how they    *)
(* are present: "stats", "empty_dict" ({}), "none" (None) or "absent".     *)

(* mutation: over 6 is still powerplay *)
PhaseOfThroughSix(over_num) ==
    IF over_num <= 6 THEN "powerplay"
    ELSE IF over_num < 15 THEN "middle"
    ELSE "death"

PhaseOf(over_num) ==
    IF over_num < 6 THEN "powerplay"
    ELSE IF over_num < 15 THEN "middle"
    ELSE "death"

Phases == <<"powerplay", "middle", "death">>

DeliveryInfo(team, over_num, ball, d) ==
    [team |-> team, over |-> over_num, ball |-> ball,
     runs_off_bat |-> d.runs_batter, total_runs |-> d.runs_total,
     extras |-> d.runs_extras, is_wicket |-> HasWicket(d),
     is_four |-> d.runs_batter = 4, is_six |-> d.runs_batter = 6,
     is_dot |-> d.runs_total = 0, is_single |-> d.runs_batter = 1,
     phase |-> PhaseOf(over_num)]

(* mutation: wides and no-balls are tagged as well *)
ExtractEveryDelivery(team, over_num, ds, ball) ==
    [i \in 1..Len(ds) |-> DeliveryInfo(team, over_num, ball + i - 1, ds[i])]

(* the deliveries of an over that are neither wides nor no-balls, tagged;
   ball is the position among all the deliveries of the over *)
RECURSIVE ExtractDeliveries(_, _, _, _)
ExtractDeliveries(team, over_num, ds, ball) ==
    IF ds = <<>> THEN <<>>
    ELSE (IF IsLegal(Head(ds))
          THEN <<DeliveryInfo(team, over_num, ball, Head(ds))>>
          ELSE <<>>)
         \o ExtractDeliveries(team, over_num, Tail(ds), ball + 1)

InitOverTally ==
    [total_overs |-> 0,
     fours |-> [zero |-> 0, one |-> 0, two |-> 0, three_plus |-> 0],
     sixes |-> [zero |-> 0, one |-> 0, two |-> 0, three_plus |-> 0],
     both |-> [zero |-> 0, one |-> 0, two |-> 0, three_plus |-> 0]]

InOverBucket(n) ==
    IF n = 0 THEN "zero"
    ELSE IF n = 1 THEN "one"
    ELSE IF n = 2 THEN "two"
    ELSE "three_plus"

(* the counters after one over: its legal fours and sixes *)
TallyOver(t, team, over) ==
    LET infos == ExtractDeliveries(team, over.over, over.deliveries, 1)
        fours_this_over == Cardinality({ i \in DOMAIN infos : infos[i].is_four })
        sixes_this_over == Cardinality({ i \in DOMAIN infos : infos[i].is_six })
    IN [t EXCEPT !.total_overs = @ + 1,
                 !.fours[InOverBucket(fours_this_over)] = @ + 1,
                 !.sixes[InOverBucket(sixes_this_over)] = @ + 1,
                 !.both[InOverBucket(fours_this_over + sixes_this_over)] = @ + 1]

RECURSIVE ExtractOvers(_, _)
ExtractOvers(team, os) ==
    IF os = <<>> THEN <<>>
    ELSE ExtractDeliveries(team, Head(os).over, Head(os).deliveries, 1)
         \o ExtractOvers(team, Tail(os))

RECURSIVE TallyOvers(_, _, _)
TallyOvers(t, team, os) ==
    IF os = <<>> THEN t
    ELSE TallyOvers(TallyOver(t, team, Head(os)), team, Tail(os))

RECURSIVE ExtractInnings(_)
ExtractInnings(is) ==
    IF is = <<>> THEN <<>>
    ELSE ExtractOvers(Head(is).team, Head(is).overs) \o ExtractInnings(Tail(is))

RECURSIVE TallyInnings(_, _)
TallyInnings(t, is) ==
    IF is = <<>> THEN t
    ELSE TallyInnings(TallyOvers(t, Head(is).team, Head(is).overs), Tail(is))

(* sums and counts over a list of tagged deliveries *)
RECURSIVE SumRunsOffBat(_)
SumRunsOffBat(ds) ==
    IF ds = <<>> THEN 0 ELSE Head(ds).runs_off_bat + SumRunsOffBat(Tail(ds))

RECURSIVE SumTotalRuns(_)
SumTotalRuns(ds) ==
    IF ds = <<>> THEN 0 ELSE Head(ds).total_runs + SumTotalRuns(Tail(ds))

CountFlag(ds, flag) == Cardinality({ i \in DOMAIN ds : ds[i][flag] })

(* mutation: the runs of the delivery, extras included *)
CountRunsWithExtras(ds, runs) ==
    Cardinality({ i \in DOMAIN ds : ds[i].total_runs = runs })

CountRuns(ds, runs) == Cardinality({ i \in DOMAIN ds : ds[i].runs_off_bat = runs })

CountBoundaries(ds) ==
    Cardinality({ i \in DOMAIN ds : ds[i].is_four \/ ds[i].is_six })

PhaseDeliveries(ds, phase) ==
    LET Keep(d) == d.phase = phase IN SelectSeq(ds, Keep)

(* the dictionary of one phase, for a non-empty list *)
PhaseStats(pd) ==
    LET phase_balls == Len(pd)
    IN [balls |-> phase_balls,
        avg_runs_per_ball |-> Frac(SumRunsOffBat(pd), phase_balls),
        run_rate |-> Frac(SumRunsOffBat(pd) * 6, phase_balls),
        dot_ball_percentage |-> Frac(CountFlag(pd, "is_dot") * 100, phase_balls),
        single_percentage |-> Frac(CountFlag(pd, "is_single") * 100, phase_balls),
        four_percentage |-> Frac(CountFlag(pd, "is_four") * 100, phase_balls),
        six_percentage |-> Frac(CountFlag(pd, "is_six") * 100, phase_balls),
        wicket_percentage |-> Frac(CountFlag(pd, "is_wicket") * 100, phase_balls)]

Present(stats) == [is |-> "stats", stats |-> <<stats>>]

Placeholder(kind) == [is |-> kind, stats |-> <<>>]

(* runs_0_probability .. runs_6_probability *)
RunsDistribution(ds) ==
    [runs \in 0..6 |-> Frac(CountRuns(ds, runs) * 100, Len(ds))]

(* total_balls / len(...) when the list is not empty *)
BallsBetween(total_balls, n) == IF n = 0 THEN <<>> ELSE <<Frac(total_balls, n)>>

(* the overall statistics of a non-empty list of tagged deliveries *)
ReduceDeliveries(ds) ==
    LET total_balls == Len(ds)
        Overall(phase) ==
            IF PhaseDeliveries(ds, phase) # <<>>
            THEN Present(PhaseStats(PhaseDeliveries(ds, phase)))
            ELSE IF phase = "powerplay" THEN Placeholder("empty_dict")
            ELSE Placeholder("absent")
    IN [total_balls_analyzed |-> total_balls,
        avg_runs_per_ball |-> Frac(SumRunsOffBat(ds), total_balls),
        avg_total_runs_per_ball |-> Frac(SumTotalRuns(ds), total_balls),
        avg_run_rate |-> Frac(SumRunsOffBat(ds) * 6, total_balls),
        avg_total_run_rate |-> Frac(SumTotalRuns(ds) * 6, total_balls),
        dot_ball_percentage |-> Frac(CountFlag(ds, "is_dot") * 100, total_balls),
        single_percentage |-> Frac(CountFlag(ds, "is_single") * 100, total_balls),
        four_percentage |-> Frac(CountFlag(ds, "is_four") * 100, total_balls),
        six_percentage |-> Frac(CountFlag(ds, "is_six") * 100, total_balls),
        wicket_percentage |-> Frac(CountFlag(ds, "is_wicket") * 100, total_balls),
        powerplay_stats |-> Overall("powerplay"),
        middle_overs_stats |-> Placeholder("empty_dict"),
        death_overs_stats |-> Placeholder("empty_dict"),
        middle_stats |-> Overall("middle"),
        death_stats |-> Overall("death"),
        runs_probability |-> RunsDistribution(ds),
        avg_balls_between_wickets |->
            BallsBetween(total_balls, CountFlag(ds, "is_wicket")),
        boundary_percentage |->
            IF CountBoundaries(ds) = 0 THEN <<>>
            ELSE <<Frac(CountBoundaries(ds) * 100, total_balls)>>,
        avg_balls_between_boundaries |->
            BallsBetween(total_balls, CountBoundaries(ds))]

(* mutation: the team's mean counts the total runs of a ball *)
TeamRunsPerBallFromTotal(td) == Frac(SumTotalRuns(td), Len(td))

(* sum(runs_off_bat) / total_balls of a team's deliveries *)
TeamRunsPerBall(td) == Frac(SumRunsOffBat(td), Len(td))

(* calculate_team_stats: <<>> for None *)
CalculateTeamStats(ds, team_name) ==
    LET Batted(d) == d.team = team_name
        td == SelectSeq(ds, Batted)
        total_balls == Len(td)
        OfTeam(phase) ==
            IF PhaseDeliveries(td, phase) # <<>>
            THEN Present(PhaseStats(PhaseDeliveries(td, phase)))
            ELSE Placeholder("none")
    IN IF td = <<>> THEN <<>>
       ELSE <<[team_name |-> team_name,
               total_balls |-> total_balls,
               avg_runs_per_ball |-> TeamRunsPerBall(td),
               avg_run_rate |-> Frac(SumRunsOffBat(td) * 6, total_balls),
               dot_ball_percentage |-> Frac(CountFlag(td, "is_dot") * 100, total_balls),
               single_percentage |-> Frac(CountFlag(td, "is_single") * 100, total_balls),
               four_percentage |-> Frac(CountFlag(td, "is_four") * 100, total_balls),
               six_percentage |-> Frac(CountFlag(td, "is_six") * 100, total_balls),
               wicket_percentage |-> Frac(CountFlag(td, "is_wicket") * 100, total_balls),
               boundary_percentage |-> Frac(CountBoundaries(td) * 100, total_balls),
               runs_probability |-> RunsDistribution(td),
               powerplay_stats |-> OfTeam("powerplay"),
               middle_stats |-> OfTeam("middle"),
               death_stats |-> OfTeam("death"),
               avg_balls_between_wickets |->
                   BallsBetween(total_balls, CountFlag(td, "is_wicket")),
               avg_balls_between_boundaries |->
                   BallsBetween(total_balls, CountBoundaries(td))]>>

(* the first-over and first-six-overs lists of the second pass *)
RECURSIVE FirstOverRunsOfOvers(_)
FirstOverRunsOfOvers(os) ==
    IF os = <<>> THEN <<>>
    ELSE (IF Head(os).over = 0 THEN <<TotalOfDeliveries(Head(os).deliveries)>>
          ELSE <<>>)
         \o FirstOverRunsOfOvers(Tail(os))

RECURSIVE FirstOverRunsOfInnings(_)
FirstOverRunsOfInnings(is) ==
    IF is = <<>> THEN <<>>
    ELSE FirstOverRunsOfOvers(Head(is).overs) \o FirstOverRunsOfInnings(Tail(is))

RECURSIVE FirstOverRuns(_)
FirstOverRuns(data_list) ==
    IF data_list = <<>> THEN <<>>
    ELSE FirstOverRunsOfInnings(Head(data_list).innings)
         \o FirstOverRuns(Tail(data_list))

RECURSIVE FirstSixTotal(_)
FirstSixTotal(os) ==
    IF os = <<>> THEN 0
    ELSE (IF Head(os).over < 6 THEN TotalOfDeliveries(Head(os).deliveries) ELSE 0)
         + FirstSixTotal(Tail(os))

RECURSIVE FirstSixRunsOfInnings(_)
FirstSixRunsOfInnings(is) ==
    IF is = <<>> THEN <<>>
    ELSE (IF FirstSixTotal(Head(is).overs) > 0
          THEN <<FirstSixTotal(Head(is).overs)>> ELSE <<>>)
         \o FirstSixRunsOfInnings(Tail(is))

RECURSIVE FirstSixRuns(_)
FirstSixRuns(data_list) ==
    IF data_list = <<>> THEN <<>>
    ELSE FirstSixRunsOfInnings(Head(data_list).innings)
         \o FirstSixRuns(Tail(data_list))

(* avg / max / min of a list; <<>> when the list is empty *)
ListStats(runs) ==
    IF runs = <<>> THEN <<>>
    ELSE <<[avg |-> Frac(SumSeq(runs), Len(runs)),
            max |-> MaxSeq(runs), min |-> MinSeq(runs)]>>

InOverPercentages(counts, total_overs) ==
    [k \in DOMAIN counts |->
       IF total_overs > 0 THEN Frac(counts[k] * 100, total_overs) ELSE Whole(0)]

TeamsOf(ds) == { ds[i].team : i \in DOMAIN ds }

(* the returned dictionary: the error entry when no delivery was kept *)
MarkovChainStats(data_list, ds, tally, team_wise) ==
    IF ds = <<>> THEN [error |-> "No valid deliveries found in the data"]
    ELSE [overall |-> ReduceDeliveries(ds),
          total_matches |-> Len(data_list),
          total_overs |-> tally.total_overs,
          fours_in_over_percentages |->
              InOverPercentages(tally.fours, tally.total_overs),
          sixes_in_over_percentages |->
              InOverPercentages(tally.sixes, tally.total_overs),
          both_in_over_percentages |->
              InOverPercentages(tally.both, tally.total_overs),
          first_over_runs |-> ListStats(FirstOverRuns(data_list)),
          first_6_overs_runs |-> ListStats(FirstSixRuns(data_list)),
          team_wise |-> team_wise,
          teams_analyzed |-> IF team_wise THEN TeamsOf(ds) ELSE {},
          team_stats |->
              [team \in (IF team_wise THEN TeamsOf(ds) ELSE {}) |->
                 CalculateTeamStats(ds, team)[1]]]

----------------------------------------------------------------------------
(* app.py: calculate_venue_wise_stats and calculate_team_wise_stats.       *)
(* A match record of these functions also has                              *)
(*   venue    <<>> or <<info.venue>>                                        *)
(*   outcome  <<>> or <<info.outcome.winner>>                               *)
(*   toss     <<>> or <<[winner, decision]>>                                *)

VenueOf(md, default) == IF md.venue = <<>> THEN default ELSE md.venue[1]

(* info.get('outcome', {}).get('winner', 'No Result') *)
WinnerOf(md) == IF md.outcome = <<>> THEN "No Result" ELSE md.outcome[1]

TossWinnerOf(md) == IF md.toss = <<>> THEN "Unknown" ELSE md.toss[1].winner

TossDecisionOf(md) == IF md.toss = <<>> THEN "Unknown" ELSE md.toss[1].decision

(* the total runs of the overs numbered below 6 *)
RECURSIVE PowerplayRuns(_)
PowerplayRuns(os) ==
    IF os = <<>> THEN 0
    ELSE (IF Head(os).over < 6 THEN TotalOfDeliveries(Head(os).deliveries)
          ELSE 0)
         + PowerplayRuns(Tail(os))

(* the total runs of the overs numbered 15 or more *)
RECURSIVE DeathOverRuns(_)
DeathOverRuns(os) ==
    IF os = <<>> THEN 0
    ELSE (IF Head(os).over >= 15 THEN TotalOfDeliveries(Head(os).deliveries)
          ELSE 0)
         + DeathOverRuns(Tail(os))

(* the counters of one innings, the same in both functions *)
InningsTotals(inning) ==
    LET ds == FlattenOvers(inning.overs)
    IN [runs |-> TotalOfDeliveries(ds),
        balls |-> Cardinality({ i \in DOMAIN ds : IsLegal(ds[i]) }),
        wickets |-> Cardinality({ i \in DOMAIN ds : HasWicket(ds[i]) }),
        fours |-> Cardinality({ i \in DOMAIN ds : ds[i].runs_batter = 4 }),
        sixes |-> Cardinality({ i \in DOMAIN ds : ds[i].runs_batter = 6 }),
        dots |-> Cardinality({ i \in DOMAIN ds : ds[i].runs_batter = 0 }),
        powerplay_runs |-> PowerplayRuns(inning.overs),
        death_over_runs |-> DeathOverRuns(inning.overs)]

InitVenueData ==
    [matches |-> 0, total_runs |-> 0, total_balls |-> 0, total_wickets |-> 0,
     total_fours |-> 0, total_sixes |-> 0, total_dots |-> 0,
     innings_scores |-> <<>>, toss_winners |-> <<>>, match_winners |-> <<>>,
     toss_decisions |-> <<>>, first_innings_scores |-> <<>>,
     second_innings_scores |-> <<>>, powerplay_runs |-> <<>>,
     death_over_runs |-> <<>>, team_totals |-> <<>>]

(* the innings loop of one match; inning_idx counts from 0 *)
RECURSIVE VenueInnings(_, _, _)
VenueInnings(vd, is, inning_idx) ==
    IF is = <<>> THEN vd
    ELSE LET t == InningsTotals(Head(is))
             vd1 == [vd EXCEPT
                       !.total_runs = @ + t.runs,
                       !.total_balls = @ + t.balls,
                       !.total_wickets = @ + t.wickets,
                       !.total_fours = @ + t.fours,
                       !.total_sixes = @ + t.sixes,
                       !.total_dots = @ + t.dots,
                       !.innings_scores = Append(@, t.runs),
                       !.team_totals = Append(@, t.runs),
                       !.powerplay_runs = Append(@, t.powerplay_runs),
                       !.death_over_runs = Append(@, t.death_over_runs),
                       !.first_innings_scores =
                           IF inning_idx = 0 THEN Append(@, t.runs) ELSE @,
                       !.second_innings_scores =
                           IF inning_idx = 1 THEN Append(@, t.runs) ELSE @]
         IN VenueInnings(vd1, Tail(is), inning_idx + 1)

(* the body of the loop over data_list *)
VenueMatch(venue_stats, md) ==
    LET venue == VenueOf(md, "Unknown Venue")
        vs == IF venue \in DOMAIN venue_stats THEN venue_stats
              ELSE venue_stats @@ (venue :> InitVenueData)
        vd == [vs[venue] EXCEPT
                 !.matches = @ + 1,
                 !.toss_winners = Append(@, TossWinnerOf(md)),
                 !.match_winners = Append(@, WinnerOf(md)),
                 !.toss_decisions = Append(@, TossDecisionOf(md))]
    IN [vs EXCEPT ![venue] = VenueInnings(vd, md.innings, 0)]

RECURSIVE VenueStats(_, _)
VenueStats(venue_stats, data_list) ==
    IF data_list = <<>> THEN venue_stats
    ELSE VenueStats(VenueMatch(venue_stats, Head(data_list)), Tail(data_list))

(* mutation: every match counts as decided *)
IsDecidedAlways(winner) == TRUE

(* winner != 'No Result' *)
IsDecided(winner) == winner # "No Result"

(* mutation: the rate is computed whatever the count *)
RateUnguarded(x, y) == Frac(x * 100, y)

(* x / y * 100 if y > 0 else 0 *)
RateOrZero(x, y) == IF y > 0 THEN Frac(x * 100, y) ELSE Whole(0)

(* sum(xs) / len(xs) if xs else 0 *)
MeanOrZero(xs) == IF xs # <<>> THEN Frac(SumSeq(xs), Len(xs)) ELSE Whole(0)

(* the matches of a venue whose toss decision was the given one and that
   were decided, and those of them won by the toss winner *)
DecisionMatches(stats, decision) ==
    { i \in DOMAIN stats.toss_decisions :
        /\ i <= Len(stats.match_winners)
        /\ IsDecided(stats.match_winners[i])
        /\ stats.toss_decisions[i] = decision }

DecisionWins(stats, decision) ==
    { i \in DecisionMatches(stats, decision) :
        stats.match_winners[i] = stats.toss_winners[i] }

(* the legal deliveries at the venue with the given runs off the bat *)
RECURSIVE VenueRunsCount(_, _, _)
VenueRunsCount(data_list, venue, runs) ==
    IF data_list = <<>> THEN 0
    ELSE (IF VenueOf(Head(data_list), "Unknown Venue") = venue
          THEN LET ds == FlattenInnings(Head(data_list).innings)
               IN Cardinality({ i \in DOMAIN ds :
                                  IsLegal(ds[i]) /\ ds[i].runs_batter = runs })
          ELSE 0)
         + VenueRunsCount(Tail(data_list), venue, runs)

VenueSummary(stats, data_list, venue) ==
    LET toss_win_match_win ==
            Cardinality({ i \in DOMAIN stats.match_winners :
                            /\ stats.match_winners[i] = stats.toss_winners[i]
                            /\ stats.match_winners[i] # "No Result" })
        total_decided_matches ==
            Cardinality({ i \in DOMAIN stats.match_winners :
                            IsDecided(stats.match_winners[i]) })
        PerBall(x) == IF stats.total_balls > 0
                      THEN Frac(x, stats.total_balls) ELSE Whole(0)
    IN [matches |-> stats.matches,
        avg_total_runs_per_match |-> MeanOrZero(stats.team_totals),
        avg_runs_per_ball |-> PerBall(stats.total_runs),
        avg_run_rate |-> PerBall(stats.total_runs * 6),
        dot_ball_percentage |-> PerBall(stats.total_dots * 100),
        four_percentage |-> PerBall(stats.total_fours * 100),
        six_percentage |-> PerBall(stats.total_sixes * 100),
        boundary_percentage |->
            PerBall((stats.total_fours + stats.total_sixes) * 100),
        wicket_percentage |-> PerBall(stats.total_wickets * 100),
        avg_first_innings |-> MeanOrZero(stats.first_innings_scores),
        avg_second_innings |-> MeanOrZero(stats.second_innings_scores),
        avg_powerplay_runs |-> MeanOrZero(stats.powerplay_runs),
        avg_death_over_runs |-> MeanOrZero(stats.death_over_runs),
        highest_team_total |->
            IF stats.team_totals # <<>> THEN MaxSeq(stats.team_totals) ELSE 0,
        lowest_team_total |->
            IF stats.team_totals # <<>> THEN MinSeq(stats.team_totals) ELSE 0,
        toss_win_match_win_rate |->
            RateOrZero(toss_win_match_win, total_decided_matches),
        bat_first_win_rate |->
            RateOrZero(Cardinality(DecisionWins(stats, "bat")),
                       Cardinality(DecisionMatches(stats, "bat"))),
        bowl_first_win_rate |->
            RateOrZero(Cardinality(DecisionWins(stats, "field")),
                       Cardinality(DecisionMatches(stats, "field"))),
        runs_probability |->
            IF stats.total_balls > 0
            THEN <<[runs \in 0..6 |->
                      Frac(VenueRunsCount(data_list, venue, runs) * 100,
                           stats.total_balls)]>>
            ELSE <<>>]

CalculateVenueWiseStats(data_list) ==
    LET venue_stats == VenueStats(<<>>, data_list)
    IN [venue \in DOMAIN venue_stats |->
          VenueSummary(venue_stats[venue], data_list, venue)]

(* lowest_score is <<>> for float('inf') *)
InitGroupedTeam ==
    [matches_played |-> 0, matches_won |-> 0, matches_lost |-> 0,
     no_results |-> 0, toss_won |-> 0, toss_won_match_won |-> 0,
     bat_first_matches |-> 0, bat_first_wins |-> 0,
     bowl_first_matches |-> 0, bowl_first_wins |-> 0,
     total_runs_scored |-> 0, total_runs_conceded |-> 0,
     total_balls_faced |-> 0, total_balls_bowled |-> 0,
     total_wickets_lost |-> 0, total_wickets_taken |-> 0,
     total_fours_hit |-> 0, total_sixes_hit |-> 0,
     total_dots_faced |-> 0, total_dots_bowled |-> 0,
     innings_scores |-> <<>>, powerplay_runs_scored |-> <<>>,
     powerplay_runs_conceded |-> <<>>, death_over_runs_scored |-> <<>>,
     death_over_runs_conceded |-> <<>>, highest_score |-> 0,
     lowest_score |-> <<>>, venues_played |-> {}, opponents_faced |-> {}]

SeqRange(s) == { s[i] : i \in DOMAIN s }

RECURSIVE TeamInitialise(_, _)
TeamInitialise(team_stats, teams) ==
    IF teams = <<>> THEN team_stats
    ELSE TeamInitialise(
           IF Head(teams) \in DOMAIN team_stats THEN team_stats
           ELSE team_stats @@ (Head(teams) :> InitGroupedTeam),
           Tail(teams))

(* mutation: a match won by anyone else is a lost match *)
TeamResultLostToAnyone(stats, team, md) ==
    LET winner == WinnerOf(md)
        won == IF winner = team THEN 1 ELSE 0
        tossed == TossWinnerOf(md) = team
        bat == tossed /\ TossDecisionOf(md) = "bat"
        field == tossed /\ TossDecisionOf(md) = "field"
    IN [stats EXCEPT
          !.matches_played = @ + 1,
          !.venues_played = @ \cup {VenueOf(md, "Unknown")},
          !.opponents_faced = @ \cup (SeqRange(md.teams) \ {team}),
          !.matches_won = @ + won,
          !.matches_lost =
              IF winner # team /\ winner # "No Result" THEN @ + 1 ELSE @,
          !.no_results =
              IF winner # team
                 /\ ~(winner # "No Result" /\ winner \in SeqRange(md.teams))
              THEN @ + 1 ELSE @,
          !.toss_won = IF tossed THEN @ + 1 ELSE @,
          !.toss_won_match_won = IF tossed THEN @ + won ELSE @,
          !.bat_first_matches = IF bat THEN @ + 1 ELSE @,
          !.bat_first_wins = IF bat THEN @ + won ELSE @,
          !.bowl_first_matches = IF field THEN @ + 1 ELSE @,
          !.bowl_first_wins = IF field THEN @ + won ELSE @]

(* the match results and toss statistics of one team of the match *)
TeamResult(stats, team, md) ==
    LET winner == WinnerOf(md)
        won == IF winner = team THEN 1 ELSE 0
        tossed == TossWinnerOf(md) = team
        bat == tossed /\ TossDecisionOf(md) = "bat"
        field == tossed /\ TossDecisionOf(md) = "field"
    IN [stats EXCEPT
          !.matches_played = @ + 1,
          !.venues_played = @ \cup {VenueOf(md, "Unknown")},
          !.opponents_faced = @ \cup (SeqRange(md.teams) \ {team}),
          !.matches_won = @ + won,
          !.matches_lost =
              IF winner # team /\ winner # "No Result"
                 /\ winner \in SeqRange(md.teams)
              THEN @ + 1 ELSE @,
          !.no_results =
              IF winner # team
                 /\ ~(winner # "No Result" /\ winner \in SeqRange(md.teams))
              THEN @ + 1 ELSE @,
          !.toss_won = IF tossed THEN @ + 1 ELSE @,
          !.toss_won_match_won = IF tossed THEN @ + won ELSE @,
          !.bat_first_matches = IF bat THEN @ + 1 ELSE @,
          !.bat_first_wins = IF bat THEN @ + won ELSE @,
          !.bowl_first_matches = IF field THEN @ + 1 ELSE @,
          !.bowl_first_wins = IF field THEN @ + won ELSE @]

RECURSIVE TeamResults(_, _, _)
TeamResults(team_stats, teams, md) ==
    IF teams = <<>> THEN team_stats
    ELSE TeamResults(
           [team_stats EXCEPT ![Head(teams)] = TeamResult(@, Head(teams), md)],
           Tail(teams), md)

(* mutation: the first listed team bowls *)
BowlingTeamFirstListed(teams, batting_team) ==
    IF teams = <<>> THEN <<>> ELSE <<Head(teams)>>

(* the first listed team that is not the batting team; <<>> for None *)
RECURSIVE BowlingTeam(_, _)
BowlingTeam(teams, batting_team) ==
    IF teams = <<>> THEN <<>>
    ELSE IF Head(teams) # batting_team THEN <<Head(teams)>>
    ELSE BowlingTeam(Tail(teams), batting_team)

(* the counters of an innings credited to its batting team *)
CreditBatting(stats, t) ==
    [stats EXCEPT
       !.total_balls_faced = @ + t.balls,
       !.total_runs_scored = @ + t.runs,
       !.total_dots_faced = @ + t.dots,
       !.total_fours_hit = @ + t.fours,
       !.total_sixes_hit = @ + t.sixes,
       !.total_wickets_lost = @ + t.wickets,
       !.innings_scores = Append(@, t.runs),
       !.powerplay_runs_scored = Append(@, t.powerplay_runs),
       !.death_over_runs_scored = Append(@, t.death_over_runs),
       !.highest_score = IF t.runs > @ THEN t.runs ELSE @,
       !.lowest_score = IF @ = <<>> \/ t.runs < @[1] THEN <<t.runs>> ELSE @]

(* and to the bowling team *)
CreditBowling(stats, t) ==
    [stats EXCEPT
       !.total_balls_bowled = @ + t.balls,
       !.total_runs_conceded = @ + t.runs,
       !.total_dots_bowled = @ + t.dots,
       !.total_wickets_taken = @ + t.wickets,
       !.powerplay_runs_conceded = Append(@, t.powerplay_runs),
       !.death_over_runs_conceded = Append(@, t.death_over_runs)]

TeamInning(team_stats, inning, teams) ==
    LET batting_team == inning.team
        bowling_team == BowlingTeam(teams, batting_team)
        t == InningsTotals(inning)
        ts1 == [team_stats EXCEPT ![batting_team] = CreditBatting(@, t)]
    IN IF batting_team \notin DOMAIN team_stats THEN team_stats
       ELSE IF bowling_team # <<>> /\ bowling_team[1] \in DOMAIN team_stats
       THEN [ts1 EXCEPT ![bowling_team[1]] = CreditBowling(@, t)]
       ELSE ts1

RECURSIVE TeamInnings(_, _, _)
TeamInnings(team_stats, is, teams) ==
    IF is = <<>> THEN team_stats
    ELSE TeamInnings(TeamInning(team_stats, Head(is), teams), Tail(is), teams)

(* the body of the loop over data_list *)
TeamMatch(team_stats, md) ==
    TeamInnings(TeamResults(TeamInitialise(team_stats, md.teams), md.teams, md),
                md.innings, md.teams)

RECURSIVE TeamStats(_, _)
TeamStats(team_stats, data_list) ==
    IF data_list = <<>> THEN team_stats
    ELSE TeamStats(TeamMatch(team_stats, Head(data_list)), Tail(data_list))

(* the legal deliveries batted by the team with the given runs off the bat *)
RECURSIVE TeamRunsCountOfInnings(_, _, _)
TeamRunsCountOfInnings(is, team, runs) ==
    IF is = <<>> THEN 0
    ELSE (IF Head(is).team = team
          THEN LET ds == FlattenOvers(Head(is).overs)
               IN Cardinality({ i \in DOMAIN ds :
                                  IsLegal(ds[i]) /\ ds[i].runs_batter = runs })
          ELSE 0)
         + TeamRunsCountOfInnings(Tail(is), team, runs)

RECURSIVE TeamRunsCount(_, _, _)
TeamRunsCount(data_list, team, runs) ==
    IF data_list = <<>> THEN 0
    ELSE TeamRunsCountOfInnings(Head(data_list).innings, team, runs)
         + TeamRunsCount(Tail(data_list), team, runs)

(* the counters of the team, then the derived statistics *)
TeamSummary(raw, data_list, team) ==
    LET stats == [raw EXCEPT
                    !.venues_played = Cardinality(@),
                    !.opponents_faced = Cardinality(@),
                    !.lowest_score = IF @ = <<>> THEN 0 ELSE @[1]]
        PerFaced(x) == IF stats.total_balls_faced > 0
                       THEN Frac(x, stats.total_balls_faced) ELSE Whole(0)
    IN stats @@
       [win_percentage |-> Frac(stats.matches_won * 100, stats.matches_played),
        loss_percentage |-> Frac(stats.matches_lost * 100, stats.matches_played),
        toss_win_percentage |-> Frac(stats.toss_won * 100, stats.matches_played),
        toss_win_match_win_rate |->
            RateOrZero(stats.toss_won_match_won, stats.toss_won),
        bat_first_win_rate |->
            RateOrZero(stats.bat_first_wins, stats.bat_first_matches),
        bowl_first_win_rate |->
            RateOrZero(stats.bowl_first_wins, stats.bowl_first_matches),
        avg_score |-> MeanOrZero(stats.innings_scores),
        avg_runs_per_ball |-> PerFaced(stats.total_runs_scored),
        avg_run_rate |-> PerFaced(stats.total_runs_scored * 6),
        strike_rate |-> PerFaced(stats.total_runs_scored * 100),
        dot_ball_percentage |-> PerFaced(stats.total_dots_faced * 100),
        boundary_percentage |->
            PerFaced((stats.total_fours_hit + stats.total_sixes_hit) * 100),
        avg_powerplay_runs |-> MeanOrZero(stats.powerplay_runs_scored),
        avg_death_over_runs |-> MeanOrZero(stats.death_over_runs_scored),
        bowling_avg_runs_conceded |->
            IF stats.total_balls_bowled > 0
            THEN Frac(stats.total_runs_conceded * 6, stats.total_balls_bowled)
            ELSE Whole(0),
        bowling_strike_rate |->
            IF stats.total_wickets_taken > 0
            THEN Frac(stats.total_balls_bowled, stats.total_wickets_taken)
            ELSE Whole(0),
        bowling_economy |->
            IF stats.total_balls_bowled > 0
            THEN Frac(stats.total_runs_conceded * 6, stats.total_balls_bowled)
            ELSE Whole(0),
        avg_powerplay_runs_conceded |->
            MeanOrZero(stats.powerplay_runs_conceded),
        avg_death_over_runs_conceded |->
            MeanOrZero(stats.death_over_runs_conceded),
        runs_probability |->
            IF stats.total_balls_faced > 0
            THEN <<[runs \in 0..6 |->
                      Frac(TeamRunsCount(data_list, team, runs) * 100,
                           stats.total_balls_faced)]>>
            ELSE <<>>]

CalculateTeamWiseStats(data_list) ==
    LET team_stats == TeamStats(<<>>, data_list)
    IN [team \in DOMAIN team_stats |->
          TeamSummary(team_stats[team], data_list, team)]

----------------------------------------------------------------------------
(* Spec: one match record, read delivery by delivery.  The record grows as *)
(* it is read; each step runs the corresponding part of the loop of        *)
(* _calculate_match_stats and of get_betting_market_summary_dict.          *)

InitMatchData == [teams |-> <<"A", "B">>, players |-> Squads, innings |-> <<>>]

BallCount(md) == Len(FlattenInnings(md.innings))

WithInnings(md, team) ==
    [md EXCEPT !.innings = Append(@, [team |-> team, overs |-> <<>>])]

WithOver(md, n) ==
    [md EXCEPT !.innings[Len(md.innings)].overs =
        Append(@, [over |-> n, deliveries |-> <<>>])]

WithDelivery(md, d) ==
    LET i == Len(md.innings)
        o == Len(md.innings[i].overs)
    IN [md EXCEPT !.innings[i].overs[o].deliveries = Append(@, d)]

(* the variables of the other specifications, at rest *)
MatchVarsIdle ==
    /\ match_data = InitMatchData
    /\ ms = InitMs
    /\ sm = InitSm
    /\ summary = <<>>

SummaryVarsIdle ==
    /\ sample = <<>>
    /\ market_name = ""
    /\ custom_line = 0
    /\ market_summary = <<>>
    /\ custom_result = <<>>

PlayerVarsIdle ==
    /\ files = <<>>
    /\ all_match_data = <<>>
    /\ all_market_summaries = <<>>
    /\ all_match_summaries = <<>>
    /\ all_ball_by_ball = <<>>
    /\ errors = <<>>
    /\ ok_files = <<>>
    /\ all_batting = <<>>
    /\ all_bowling = <<>>
    /\ agg_batting = <<>>
    /\ agg_bowling = <<>>

AnalysisVarsIdle ==
    /\ all_deliveries = <<>>
    /\ over_tally = InitOverTally
    /\ markov_stats = <<>>
    /\ venue_summary = <<>>
    /\ team_summary = <<>>

Init ==
    /\ pc = "match"
    /\ match_data = InitMatchData
    /\ ms = InitMs
    /\ sm = InitSm
    /\ summary = <<>>
    /\ markets = InitMarkets
    /\ tallies = InitTallies
    /\ corpus = <<>>
    /\ summaries = <<>>
    /\ SummaryVarsIdle
    /\ PlayerVarsIdle
    /\ AnalysisVarsIdle

(* the records explored: the two teams bat in turn, the overs of an innings
   carry increasing over numbers, and an over has at least one delivery *)
StartInnings(team) ==
    /\ pc = "match"
    /\ Len(match_data.innings) < MaxInnings
    /\ match_data.innings # <<>> => Last(match_data.innings).team # team
    /\ match_data' = WithInnings(match_data, team)
    /\ ms' = InningsStart(ms, team)
    /\ sm' = SummaryInningsStart(sm, team)
    /\ pc' = "innings"
    /\ UNCHANGED <<summary, corpusVars, summaryVars, playerVars, analysisVars>>

StartOver(n) ==
    /\ pc = "innings"
    /\ \A i \in DOMAIN Last(match_data.innings).overs :
           Last(match_data.innings).overs[i].over < n
    /\ match_data' = WithOver(match_data, n)
    /\ ms' = OverStart(ms)
    /\ pc' = "over"
    /\ UNCHANGED <<sm, summary, corpusVars, summaryVars, playerVars, analysisVars>>

Ball(d) ==
    /\ pc = "over"
    /\ BallCount(match_data) < MaxBalls
    /\ match_data' = WithDelivery(match_data, d)
    /\ ms' = BallStep(ms, d)
    /\ sm' = SummaryBall(sm, d)
    /\ UNCHANGED <<pc, summary, corpusVars, summaryVars, playerVars, analysisVars>>

EndOver ==
    /\ pc = "over"
    /\ Last(Last(match_data.innings).overs).deliveries # <<>>
    /\ ms' = OverEnd(ms)
    /\ sm' = SummaryOver(sm, Last(Last(match_data.innings).overs))
    /\ pc' = "innings"
    /\ UNCHANGED <<match_data, summary, corpusVars, summaryVars, playerVars, analysisVars>>

EndInnings ==
    /\ pc = "innings"
    /\ ms' = InningsEnd(ms, Last(match_data.innings))
    /\ sm' = SummaryInningsEnd(sm, Last(match_data.innings))
    /\ pc' = "match"
    /\ UNCHANGED <<match_data, summary, corpusVars, summaryVars, playerVars, analysisVars>>

(* the record is complete: the summary pass returns its dictionary unless
   the player summaries raised, and the market pass appends the match *)
EndMatch ==
    /\ pc = "match"
    /\ summary' = IF PlayerSummariesRaise(match_data) THEN <<>>
                  ELSE <<SummaryDict(sm)>>
    /\ markets' = UpdateMarketsWithMatchStats(markets, MatchEnd(ms),
                                              match_data.teams)
    /\ tallies' = UpdateTalliesWithMatchStats(tallies, MatchEnd(ms),
                                              match_data.teams)
    /\ corpus' = Append(corpus, match_data)
    /\ pc' = "done"
    /\ UNCHANGED <<match_data, ms, sm, summaries, summaryVars, playerVars, analysisVars>>

Next ==
    \/ \E team \in Teams : StartInnings(team)
    \/ \E n \in OverNumbers : StartOver(n)
    \/ \E d \in Deliveries : Ball(d)
    \/ EndOver
    \/ EndInnings
    \/ EndMatch

Spec == Init /\ [][Next]_vars

----------------------------------------------------------------------------
(* Reference values, computed from the match record alone *)

InningsDeliveries(inning) == FlattenOvers(inning.overs)

(* the score at the fall of the first wicket: the total runs of the
   deliveries up to and including the first one that carries a wicket;
   NotAvailable when none does *)
RECURSIVE RefFallFrom(_, _)
RefFallFrom(ds, score) ==
    IF ds = <<>> THEN NotAvailable
    ELSE IF HasWicket(Head(ds)) THEN <<score + Head(ds).runs_total>>
    ELSE RefFallFrom(Tail(ds), score + Head(ds).runs_total)

RefFall(inning) == RefFallFrom(InningsDeliveries(inning), 0)

(* the same score counted in runs off the bat *)
RECURSIVE RefBatFallFrom(_, _)
RefBatFallFrom(ds, score) ==
    IF ds = <<>> THEN NotAvailable
    ELSE IF HasWicket(Head(ds)) THEN <<score + Head(ds).runs_batter>>
    ELSE RefBatFallFrom(Tail(ds), score + Head(ds).runs_batter)

RefBatFall(inning) == RefBatFallFrom(InningsDeliveries(inning), 0)

(* T(m): the total runs of every delivery of every innings *)
RefMatchTotal(md) == TotalOfDeliveries(FlattenInnings(md.innings))

(* the total runs of the overs of an innings whose over number is below n *)
RECURSIVE RefRunsBelow(_, _)
RefRunsBelow(os, n) ==
    IF os = <<>> THEN 0
    ELSE (IF Head(os).over < n THEN TotalOfDeliveries(Head(os).deliveries) ELSE 0)
         + RefRunsBelow(Tail(os), n)

RefFirstInningsBelow(md, n) ==
    IF md.innings = <<>> THEN 0 ELSE RefRunsBelow(md.innings[1].overs, n)

InningsWithWicket(md) ==
    { i \in DOMAIN md.innings : RefFall(md.innings[i]) # NotAvailable }

----------------------------------------------------------------------------
(* Claims about one match (Spec) *)

(* C1: when a first wicket falls in the match, the value appended to
   runs_at_fall_first_wicket is the running score of an innings, counted in
   total runs (batter runs plus extras), up to and including the first
   delivery that carries a wicket. *)
C1_FallMarketCountsTotalRuns ==
    (pc = "done" /\ markets["runs_at_fall_first_wicket"] # <<>>) =>
        \E i \in InningsWithWicket(match_data) :
            markets["runs_at_fall_first_wicket"] = RefFall(match_data.innings[i])

(* C4: every innings entry of the summary pass holds the total-runs score
   at the fall of the first wicket, or 'N/A' when no wicket fell; the
   returned dictionary reports it for innings 1 and innings 2. *)
C4_SummaryFallOfFirstWicket ==
    /\ \A i \in DOMAIN sm.inning_stats :
          sm.inning_stats[i].fall_of_1st_wicket = RefFall(match_data.innings[i])
    /\ pc \in {"innings", "over"} =>
          sm.stats.fall_of_1st_wicket = RefFall(Last(match_data.innings))
    /\ summary # <<>> =>
          /\ summary[1].Innings_1_Fall_of_1st_Wicket =
                IF Len(match_data.innings) > 0
                THEN RefFall(match_data.innings[1]) ELSE NotAvailable
          /\ summary[1].Innings_2_Fall_of_1st_Wicket =
                IF Len(match_data.innings) > 1
                THEN RefFall(match_data.innings[2]) ELSE NotAvailable

(* an innings in which a wide precedes the first wicket, which itself
   scores, and whose reported fall score counts both *)
C4_Witness ==
    /\ pc = "done"
    /\ summary # <<>>
    /\ Len(match_data.innings) = 2
    /\ summary[1].Innings_1_Fall_of_1st_Wicket = <<2>>
    /\ summary[1].Innings_2_Fall_of_1st_Wicket = NotAvailable
    /\ \E d \in DOMAIN InningsDeliveries(match_data.innings[1]) :
          InningsDeliveries(match_data.innings[1])[d].runs_extras > 0

(* C5: within an innings the opening-partnership running value never
   decreases while no wicket has fallen, is recorded on the first wicket
   delivery with that delivery's runs included, and is changed by no later
   step of the same innings; in the summary pass (running_score,
   fall_of_1st_wicket) and in the market extractor (current_partnership,
   opening_partnership). *)
SameInnings == pc \in {"innings", "over"} /\ pc' \in {"innings", "over"}

BallRead == SameInnings /\ BallCount(match_data') = BallCount(match_data) + 1

ReadDelivery == Last(FlattenInnings(match_data'.innings))

C5_SummaryStep ==
    /\ (BallRead /\ ~sm.wicket_fell) =>
          /\ sm'.running_score >= sm.running_score
          /\ sm'.running_score = sm.running_score + ReadDelivery.runs_total
          /\ HasWicket(ReadDelivery) =>
                sm'.stats.fall_of_1st_wicket = <<sm'.running_score>>
          /\ ~HasWicket(ReadDelivery) =>
                sm'.stats.fall_of_1st_wicket = NotAvailable
    /\ (SameInnings /\ (sm.wicket_fell \/ ~BallRead)) =>
          /\ sm'.running_score = sm.running_score
          /\ sm'.stats.fall_of_1st_wicket = sm.stats.fall_of_1st_wicket

C5_ExtractorStep ==
    LET op == ms.stats.team_stats[ms.team].opening_partnership
        op1 == ms'.stats.team_stats[ms.team].opening_partnership
    IN /\ (BallRead /\ ~ms.first_wicket_found) =>
             /\ ms'.current_partnership >= ms.current_partnership
             /\ ms'.current_partnership =
                   ms.current_partnership + ReadDelivery.runs_batter
             /\ HasWicket(ReadDelivery) =>
                   /\ op1 = ms'.current_partnership
                   /\ ms'.stats.opening_partnerships =
                         Append(ms.stats.opening_partnerships,
                                ms'.current_partnership)
             /\ ~HasWicket(ReadDelivery) =>
                   /\ op1 = op
                   /\ ms'.stats.opening_partnerships =
                         ms.stats.opening_partnerships
       /\ (SameInnings /\ (ms.first_wicket_found \/ ~BallRead)) =>
             /\ ms'.current_partnership = ms.current_partnership
             /\ op1 = op
             /\ ms'.stats.opening_partnerships = ms.stats.opening_partnerships

C5_PartnershipGrowsThenFrozen ==
    [][C5_SummaryStep /\ C5_ExtractorStep]_vars

(* an innings whose first delivery scores and carries the first wicket and
   whose second delivery scores too: the recorded values are those of the
   first delivery *)
C5_Witness ==
    /\ pc = "over"
    /\ LET ds == InningsDeliveries(Last(match_data.innings))
       IN /\ Len(ds) = 2
          /\ HasWicket(ds[1]) /\ ds[1].runs_batter = 1
          /\ ds[2].runs_batter = 1
    /\ sm.stats.fall_of_1st_wicket = <<1>>
    /\ ms.stats.team_stats[ms.team].opening_partnership = 1

(* C10: runs_first_6 / 10 / 15 are the total runs of the first innings'
   deliveries in overs whose over number is below 6 / 10 / 15. *)
C10_PhaseRunsByOverNumber ==
    pc = "done" =>
        /\ markets["runs_first_6_overs"] =
              <<RefFirstInningsBelow(match_data, First6)>>
        /\ markets["runs_first_10_overs"] =
              <<RefFirstInningsBelow(match_data, First10)>>
        /\ markets["runs_first_15_overs"] =
              <<RefFirstInningsBelow(match_data, First15)>>

(* the number of deliveries with k runs off the bat in the innings batted
   by a team; 0 for a team that did not bat *)
RefTeamHits(md, team, k) ==
    SumOver([i \in DOMAIN md.innings |->
               Cardinality({ j \in DOMAIN InningsDeliveries(md.innings[i]) :
                               InningsDeliveries(md.innings[i])[j].runs_batter = k })],
            { i \in DOMAIN md.innings : md.innings[i].team = team })

RefComparative(tally, one, two) ==
    /\ tally.team_1 = (IF one > two THEN 1 ELSE 0)
    /\ tally.team_2 = (IF two > one THEN 1 ELSE 0)
    /\ tally.tie = (IF one = two THEN 1 ELSE 0)
    /\ tally.team_1 + tally.team_2 + tally.tie = Len(corpus)

(* C11: the processed match increments exactly one bucket of most_sixes and
   one of most_fours: team_1 iff the first listed team's total is strictly
   greater, team_2 iff the second listed team's is, tie iff they are equal
   (a team that did not bat counts as 0); the buckets sum to the number of
   processed matches. *)
C11_ComparativeMarketsOneBucket ==
    pc = "done" =>
        /\ RefComparative(tallies.most_sixes,
                          RefTeamHits(match_data, match_data.teams[1], 6),
                          RefTeamHits(match_data, match_data.teams[2], 6))
        /\ RefComparative(tallies.most_fours,
                          RefTeamHits(match_data, match_data.teams[1], 4),
                          RefTeamHits(match_data, match_data.teams[2], 4))

(* the first listed team hit a four, the second a six *)
C11_Witness ==
    /\ pc = "done"
    /\ Len(match_data.innings) = 2
    /\ RefTeamHits(match_data, match_data.teams[1], 4) = 1
    /\ RefTeamHits(match_data, match_data.teams[2], 6) = 1
    /\ tallies.most_fours.team_1 = 1
    /\ tallies.most_sixes.team_2 = 1

RefCategory(runs) ==
    CASE runs = 1 -> "single"
      [] runs = 2 -> "two"
      [] runs = 3 -> "three"
      [] runs = 4 -> "four"
      [] runs = 6 -> "six"
      [] OTHER -> "others"

(* the tallies of the first-ball markets after one match whose deciding
   delivery is <<>> (none) or <<d>> *)
RefFirstBallTallies(tl, first) ==
    /\ tl.first_ball_dot.yes = (IF first # <<>> /\ first[1].runs_total = 0 THEN 1 ELSE 0)
    /\ tl.first_ball_dot.no = 1 - tl.first_ball_dot.yes
    /\ \A c \in DOMAIN tl.first_scoring_shot :
          tl.first_scoring_shot[c] =
              (IF /\ first # <<>>
                  /\ first[1].runs_batter > 0
                  /\ c = RefCategory(first[1].runs_batter)
               THEN 1 ELSE 0)

RefFirstDelivery(md) ==
    LET ds == FlattenInnings(md.innings)
    IN IF ds = <<>> THEN <<>> ELSE <<ds[1]>>

RefFirstLegalDelivery(md) ==
    LET ds == FlattenInnings(md.innings)
        legal == { i \in DOMAIN ds : IsLegal(ds[i]) }
    IN IF legal = {} THEN <<>>
       ELSE <<ds[CHOOSE i \in legal : \A j \in legal : i <= j]>>

(* C12 as stated: the first-ball markets are decided by the very first
   delivery of the match alone: first_ball_dot tallies yes iff it has total
   runs 0, first_scoring_shot is tallied in its category iff it scored runs
   off the bat. *)
C12_FirstBallIsFirstDelivery ==
    (pc = "done" /\ RefFirstDelivery(match_data) # <<>>) =>
        RefFirstBallTallies(tallies, RefFirstDelivery(match_data))

(* C12 amended: the first-ball markets are decided by the first delivery of
   the match that is neither a wide nor a no-ball: once that delivery has
   been read no later delivery changes first_ball_dot or first_scoring_shot,
   and the tallies of the match follow from that delivery alone (no and no
   category when the match has no such delivery). *)
C12_FirstBallIsFirstLegalDelivery ==
    [][ /\ RefFirstLegalDelivery(match_data) # <<>> =>
             /\ ms'.stats.first_ball_dot = ms.stats.first_ball_dot
             /\ ms'.stats.first_scoring_shot = ms.stats.first_scoring_shot
        /\ pc' = "done" =>
             RefFirstBallTallies(tallies', RefFirstLegalDelivery(match_data'))
      ]_vars

(* the match opened with a wide and its first legal delivery was a dot *)
C12_Witness ==
    /\ pc = "done"
    /\ RefFirstDelivery(match_data) # <<>>
    /\ ~IsLegal(RefFirstDelivery(match_data)[1])
    /\ RefFirstLegalDelivery(match_data) # <<>>
    /\ RefFirstLegalDelivery(match_data)[1].runs_total = 0
    /\ tallies.first_ball_dot.yes = 1

----------------------------------------------------------------------------
(* SpecCorpus: calculate_betting_markets over a corpus.  One step is one   *)
(* pass of the loop over data_list; Summarise is the call of               *)
(* _calculate_market_summaries that follows the loop.                      *)

MaxMatches == 2   \* matches per corpus (SpecCorpus)

Single == Delivery(1, 0, {}, <<>>)
Four == Delivery(4, 0, {}, <<>>)
Wide == Delivery(0, 1, {"wides"}, <<>>)
Out == Delivery(0, 0, {}, <<"bowled">>)
SingleAndOut == Delivery(1, 0, {}, <<"run out">>)
FourAndOut == Delivery(4, 0, {}, <<"caught">>)

(* the innings of the corpus: the deliveries of their only over; <<>> is an
   innings without overs.  A bats first with any pair of innings; when B
   bats first both innings follow the same script *)
CorpusScripts ==
    { <<>>, <<Single, Wide>>, <<Wide, Out>>, <<Four, SingleAndOut>> }

CorpusInnings(team) ==
    { [team |-> team,
       overs |-> IF ds = <<>> THEN <<>>
                 ELSE <<[over |-> 0, deliveries |-> ds]>>] : ds \in CorpusScripts }

CorpusInningsLists ==
    {<<>>}
    \cup { <<i>> : i \in CorpusInnings("A") \cup CorpusInnings("B") }
    \cup { <<i, j>> : i \in CorpusInnings("A"), j \in CorpusInnings("B") }
    \cup { <<[team |-> "B", overs |-> i.overs], i>> : i \in CorpusInnings("A") }

CorpusMatches ==
    { [teams |-> <<"A", "B">>, players |-> Squads, innings |-> is] :
         is \in CorpusInningsLists }
    \cup { [teams |-> <<"A">>, players |-> Squads, innings |-> <<i>>] :
              i \in CorpusInnings("A") }

InitCorpus ==
    /\ pc = "loop"
    /\ markets = InitMarkets
    /\ tallies = InitTallies
    /\ corpus = <<>>
    /\ summaries = <<>>
    /\ MatchVarsIdle
    /\ SummaryVarsIdle
    /\ PlayerVarsIdle
    /\ AnalysisVarsIdle

ProcessMatch(md) ==
    /\ pc = "loop"
    /\ Len(corpus) < MaxMatches
    /\ corpus' = Append(corpus, md)
    /\ markets' = ProcessMatchForBettingMarkets(md, markets)
    /\ tallies' = ProcessMatchForTallies(md, tallies)
    /\ UNCHANGED <<pc, summaries, matchVars, summaryVars, playerVars, analysisVars>>

Summarise ==
    /\ pc = "loop"
    /\ summaries' = CalculateMarketSummaries(markets)
    /\ pc' = "returned"
    /\ UNCHANGED <<markets, tallies, corpus, matchVars, summaryVars, playerVars, analysisVars>>

NextCorpus ==
    \/ \E md \in CorpusMatches : ProcessMatch(md)
    \/ Summarise

SpecCorpus == InitCorpus /\ [][NextCorpus]_vars

----------------------------------------------------------------------------
(* Claims about a corpus (SpecCorpus) *)

HasTwoTeams(md) == Len(md.teams) >= 2

TwoTeamMatches(c) == SelectSeq(c, HasTwoTeams)

RefBatted(md, team) == \E i \in DOMAIN md.innings : md.innings[i].team = team

(* the last innings of the match that lost a wicket had runs off the bat on
   the board when its first wicket fell *)
RefFallRecorded(md) ==
    LET W == InningsWithWicket(md)
    IN W # {} /\
       LET last == CHOOSE i \in W : \A j \in W : j <= i
       IN RefBatFall(md.innings[last])[1] > 0

(* C2 as claimed: after n matches that each list two teams, every numeric
   market's sample holds exactly n values. *)
C2_EveryNumericMarketHasOnePerMatch ==
    (\A i \in DOMAIN corpus : HasTwoTeams(corpus[i])) =>
        \A k \in NumericMarkets : Len(markets[k]) = Len(corpus)

(* C2 as amended: the markets every match appends to hold one value per
   two-team match; runs_at_fall_first_wicket holds one value per match whose
   recorded first-wicket score is positive; highest_opening_partnership
   holds one value per innings in which a wicket fell; the home_ (away_)
   markets hold one value per match in which the first (second) listed team
   batted. *)
C2_NumericMarketSampleSizes ==
    LET c == TwoTeamMatches(corpus)
        n == Len(c)
    IN /\ \A k \in MatchMarkets : Len(markets[k]) = n
       /\ Len(markets["runs_at_fall_first_wicket"]) =
             Cardinality({ i \in 1..n : RefFallRecorded(c[i]) })
       /\ Len(markets["runs_at_fall_first_wicket"]) <= n
       /\ Len(markets["highest_opening_partnership"]) =
             SumOver([i \in 1..n |-> Cardinality(InningsWithWicket(c[i]))], 1..n)
       /\ \A k \in HomeMarkets :
             Len(markets[k]) =
                Cardinality({ i \in 1..n : RefBatted(c[i], c[i].teams[1]) })
       /\ \A k \in AwayMarkets :
             Len(markets[k]) =
                Cardinality({ i \in 1..n : RefBatted(c[i], c[i].teams[2]) })

(* two two-team matches after which the samples have four different sizes *)
C2_Witness ==
    /\ Len(corpus) = 2
    /\ \A i \in DOMAIN corpus : HasTwoTeams(corpus[i])
    /\ Len(markets["total_runs"]) = 2
    /\ Len(markets["runs_at_fall_first_wicket"]) = 1
    /\ Len(markets["highest_opening_partnership"]) = 3
    /\ Len(markets["home_total_fours"]) = 1
    /\ Len(markets["away_total_fours"]) = 2

(* C3: the total_runs sample is [T(m1), ..., T(mn)] over the two-team
   matches in processing order, T(m) being the total runs of every delivery
   of every innings of m. *)
C3_TotalRunsSample ==
    LET c == TwoTeamMatches(corpus)
    IN markets["total_runs"] = [i \in 1..Len(c) |-> RefMatchTotal(c[i])]

(* two matches of two scoring innings each, with different totals *)
C3_Witness ==
    /\ Len(corpus) = 2
    /\ \A i \in DOMAIN corpus :
          /\ HasTwoTeams(corpus[i])
          /\ Len(corpus[i].innings) = 2
          /\ \A j \in 1..2 : TotalOfOvers(corpus[i].innings[j].overs) > 0
    /\ markets["total_runs"] = <<7, 3>>

----------------------------------------------------------------------------
(* SpecSummary: _calculate_market_summaries' statistics of one market and  *)
(* calculate_custom_over_under, applied to a bounded sample.               *)

MaxSample == 3   \* values per sample (SpecSummary)

SampleValues == {19, 20, 21}

(* a market with predefined lines (20, 25, ...) and one whose only line is
   its average *)
SummaryMarkets == {"runs_at_fall_first_wicket", "total_runs_out"}

CustomLines == {19, 20}

Samples == UNION { [1..n -> SampleValues] : n \in 0..MaxSample }

InitSummary ==
    /\ pc = "input"
    /\ sample \in Samples
    /\ market_name \in SummaryMarkets
    /\ custom_line \in CustomLines
    /\ market_summary = <<>>
    /\ custom_result = <<>>
    /\ markets = InitMarkets
    /\ tallies = InitTallies
    /\ corpus = <<>>
    /\ summaries = <<>>
    /\ MatchVarsIdle
    /\ PlayerVarsIdle
    /\ AnalysisVarsIdle

SummariseMarket ==
    /\ pc \in {"input", "custom"}
    /\ market_summary' = MarketSummary(market_name, sample)
    /\ pc' = IF pc = "input" THEN "summary" ELSE "both"
    /\ UNCHANGED <<sample, market_name, custom_line, custom_result,
                   matchVars, corpusVars, playerVars, analysisVars>>

CustomOverUnder ==
    /\ pc \in {"input", "summary"}
    /\ custom_result' = CalculateCustomOverUnder(sample, custom_line)
    /\ pc' = IF pc = "input" THEN "custom" ELSE "both"
    /\ UNCHANGED <<sample, market_name, custom_line, market_summary,
                   matchVars, corpusVars, playerVars, analysisVars>>

NextSummary == SummariseMarket \/ CustomOverUnder

SpecSummary == InitSummary /\ [][NextSummary]_vars

(* the values of the sample above a line, counted by position *)
RefOver(data, line) ==
    Cardinality({ j \in DOMAIN data : data[j] * line.den > line.num })

RefNotOver(data, line) ==
    Cardinality({ j \in DOMAIN data : data[j] * line.den <= line.num })

(* C6: for every line of a non-empty sample, predefined or caller-supplied,
   over_count is the number of values strictly greater than the line, a
   value equal to the line counts as under, over_count + under_count is the
   sample size, and the two percentages add up to 100. *)
C6_OverUnderPartition ==
    /\ market_summary # <<>> =>
          \A i \in DOMAIN market_summary[1].over_under_analysis :
             LET e == market_summary[1].over_under_analysis[i]
             IN /\ e.over_count = RefOver(sample, e.line)
                /\ e.under_count = RefNotOver(sample, e.line)
                /\ e.over_count + e.under_count = Len(sample)
                /\ e.over_percentage.den = Len(sample)
                /\ e.under_percentage.den = Len(sample)
                /\ e.over_percentage.num + e.under_percentage.num
                      = 100 * Len(sample)
    /\ custom_result # <<>> =>
          LET r == custom_result[1]
          IN /\ r.line = custom_line
             /\ r.over_count = RefOver(sample, Whole(custom_line))
             /\ r.under_count = RefNotOver(sample, Whole(custom_line))
             /\ r.over_count + r.under_count = Len(sample)
             /\ r.total_matches = Len(sample)

(* a sample holding its line 20, a value below and a value above it, for
   the predefined line and for the caller's line *)
C6_Witness ==
    /\ pc = "both"
    /\ sample = <<20, 21, 19>>
    /\ market_name = "runs_at_fall_first_wicket"
    /\ custom_line = 20
    /\ market_summary[1].over_under_analysis[1].line = Whole(20)
    /\ market_summary[1].over_under_analysis[1].over_count = 1
    /\ market_summary[1].over_under_analysis[1].under_count = 2
    /\ custom_result[1].over_count = 1
    /\ custom_result[1].under_count = 2

(* C7: for a non-empty sample the median is the element at index
   count // 2 of the ascending order (the upper middle element of an even
   sized sample), count is the sample size, and min <= median <= max with
   the median a member of the sample. *)
C7_PositionalMedian ==
    market_summary # <<>> =>
        LET r == market_summary[1]
            k == Len(sample) \div 2
        IN /\ r.count = Len(sample)
           /\ \E j \in DOMAIN sample : sample[j] = r.median
           /\ Cardinality({ j \in DOMAIN sample : sample[j] < r.median }) <= k
           /\ Cardinality({ j \in DOMAIN sample : sample[j] <= r.median }) >= k + 1
           /\ r.min <= r.median /\ r.median <= r.max
           /\ \A j \in DOMAIN sample : r.min <= sample[j] /\ sample[j] <= r.max
           /\ \E j \in DOMAIN sample : sample[j] = r.min
           /\ \E j \in DOMAIN sample : sample[j] = r.max

(* an even-sized sample with two different middle elements: the median is
   the upper one *)
C7_Witness ==
    /\ sample = <<21, 19>>
    /\ market_summary # <<>>
    /\ market_summary[1].median = 21
    /\ market_summary[1].min = 19

----------------------------------------------------------------------------
(* SpecPlayers: process_all_files reads the uploaded files one by one and
   then aggregates the player tables *)

MaxFiles == 2

Dot == Delivery(0, 0, {}, <<>>)

(* the same delivery with p2 batting and p1 bowling *)
Swapped(d) == [d EXCEPT !.batter = "p2", !.bowler = "p1"]

(* a delivery whose batter is in no squad *)
Unlisted(d) == [d EXCEPT !.batter = "p3"]

SwappedSquads == [A |-> {"p2"}, B |-> {"p1"}]

PlayerScripts ==
    { <<>>, <<Single>>, <<Dot, Dot>>, <<Wide, FourAndOut>>,
      <<Swapped(Single), Swapped(Out)>>, <<Unlisted(Single)>> }

BattingTeam(squads, ds) ==
    IF \E t \in DOMAIN squads : ds[1].batter \in squads[t]
    THEN CHOOSE t \in DOMAIN squads : ds[1].batter \in squads[t]
    ELSE "A"

PlayerMatches ==
    { [teams |-> <<"A", "B">>, players |-> squads,
       innings |-> IF ds = <<>> THEN <<>>
                   ELSE <<[team |-> BattingTeam(squads, ds),
                           overs |-> <<[over |-> 0, deliveries |-> ds]>>]>>] :
         squads \in {Squads, SwappedSquads}, ds \in PlayerScripts }

InitPlayers ==
    /\ pc = "files"
    /\ PlayerVarsIdle
    /\ markets = InitMarkets
    /\ tallies = InitTallies
    /\ corpus = <<>>
    /\ summaries = <<>>
    /\ MatchVarsIdle
    /\ SummaryVarsIdle
    /\ AnalysisVarsIdle

(* an uploaded file: json is <<>> when json.loads rejects its contents and
   <<the match record>> otherwise *)
Unparsable == [json |-> <<>>]

OneTeamMatch ==
    [teams |-> <<"A">>, players |-> Squads,
     innings |-> <<[team |-> "A",
                    overs |-> <<[over |-> 0, deliveries |-> <<Single>>]>>]>>]

(* the delivery d with its 'runs' entry a bare integer, not a mapping *)
BareRuns(d) ==
    [batter |-> d.batter, bowler |-> d.bowler, runs |-> d.runs_total,
     extras |-> d.extras, wickets |-> d.wickets]

BareRunsMatch(d) ==
    [teams |-> <<"A", "B">>, players |-> Squads,
     innings |-> <<[team |-> "A",
                    overs |-> <<[over |-> 0, deliveries |-> <<BareRuns(d)>>]>>]>>]

UploadedFiles ==
    { [json |-> <<md>>] : md \in PlayerMatches \cup {OneTeamMatch} }
    \cup { [json |-> <<BareRunsMatch(d)>>] : d \in {Single, Four} }
    \cup {Unparsable}

(* delivery['runs']['batter'] on a 'runs' entry that is an integer raises
   TypeError *)
RunsNotSubscriptable(md) ==
    LET ds == FlattenInnings(md.innings)
    IN \E i \in DOMAIN ds : "runs_batter" \notin DOMAIN ds[i]

(* where the body of the try block raises for the file: at json.loads, in
   get_betting_market_summary_dict (its call of the player summaries), at
   the unpacking of the two teams, or nowhere *)
RaisesAt(file) ==
    IF file.json = <<>> THEN "loads"
    ELSE IF RunsNotSubscriptable(file.json[1]) THEN "market_summary"
    ELSE IF PlayerSummariesRaise(file.json[1]) THEN "market_summary"
    ELSE IF Len(file.json[1].teams) < 2 THEN "teams"
    ELSE "nowhere"

(* sum of the total runs of innings k, 0 when there is none *)
InningsScore(innings, k) ==
    IF Len(innings) >= k THEN TotalOfDeliveries(FlattenOvers(innings[k].overs))
    ELSE 0

(* the keys of the market summary that identify the match and its innings;
   the remaining keys are those of SummaryDict *)
MarketSummaryDict(match_id, data) ==
    [match_id |-> match_id,
     innings_1_runs |-> InningsScore(data.innings, 1),
     innings_2_runs |-> InningsScore(data.innings, 2)]

MatchSummaryRow(match_id, data) ==
    [match_id |-> match_id,
     home_team |-> data.teams[1],
     away_team |-> data.teams[2],
     home_score |-> InningsScore(data.innings, 1),
     away_score |-> InningsScore(data.innings, 2)]

RECURSIVE BallRowsOfDeliveries(_, _, _, _, _)
BallRowsOfDeliveries(match_id, i, inning, over, j) ==
    IF j > Len(over.deliveries) THEN <<>>
    ELSE <<[match_id |-> match_id, inning |-> i, over |-> over.over + 1,
            ball |-> j, batting_team |-> inning.team,
            batter |-> over.deliveries[j].batter,
            bowler |-> over.deliveries[j].bowler,
            runs_off_bat |-> over.deliveries[j].runs_batter,
            extras |-> over.deliveries[j].runs_extras,
            total_runs |-> over.deliveries[j].runs_total]>>
         \o BallRowsOfDeliveries(match_id, i, inning, over, j + 1)

RECURSIVE BallRowsOfOvers(_, _, _, _)
BallRowsOfOvers(match_id, i, inning, os) ==
    IF os = <<>> THEN <<>>
    ELSE BallRowsOfDeliveries(match_id, i, inning, Head(os), 1)
         \o BallRowsOfOvers(match_id, i, inning, Tail(os))

RECURSIVE BallRows(_, _, _)
BallRows(match_id, innings, i) ==
    IF i > Len(innings) THEN <<>>
    ELSE BallRowsOfOvers(match_id, i, innings[i], innings[i].overs)
         \o BallRows(match_id, innings, i + 1)

(* the except clause runs: st.error and continue *)
IsReported(file) == RaisesAt(file) # "nowhere"

(* one pass of the loop over the uploaded files; match_id is the position
   of the file.  Each append happens when the statements before it did not
   raise; a file that raises is reported and the loop continues *)
ProcessFile(file) ==
    LET match_id == Len(files) + 1
        data == file.json[1]
        at == RaisesAt(file)
    IN /\ pc = "files"
       /\ Len(files) < MaxFiles
       /\ files' = Append(files, file)
       /\ all_match_data' =
              IF at # "loads"
              THEN Append(all_match_data, [match_id |-> match_id, data |-> data])
              ELSE all_match_data
       /\ all_market_summaries' =
              IF at \in {"teams", "nowhere"}
              THEN Append(all_market_summaries, MarketSummaryDict(match_id, data))
              ELSE all_market_summaries
       /\ IF at = "nowhere"
          THEN /\ all_match_summaries' =
                     Append(all_match_summaries, MatchSummaryRow(match_id, data))
               /\ all_ball_by_ball' =
                     all_ball_by_ball \o BallRows(match_id, data.innings, 1)
               /\ ok_files' = Append(ok_files, data)
               /\ all_batting' = Append(all_batting, BattingTable(data))
               /\ all_bowling' = Append(all_bowling, BowlingTable(data))
          ELSE UNCHANGED <<all_match_summaries, all_ball_by_ball, ok_files,
                           all_batting, all_bowling>>
       /\ errors' = IF IsReported(file) THEN Append(errors, match_id) ELSE errors
       /\ UNCHANGED <<pc, agg_batting, agg_bowling,
                      matchVars, corpusVars, summaryVars, analysisVars>>

(* after the loop, for a non-empty upload (the caller's guard): with no
   table the aggregates stay empty frames and the final sort_values raises *)
AggregatePlayers ==
    /\ pc = "files"
    /\ files # <<>>
    /\ IF all_batting = <<>>
       THEN /\ pc' = "raised"
            /\ UNCHANGED <<agg_batting, agg_bowling>>
       ELSE /\ pc' = "returned"
            /\ agg_batting' = AggregateBatting(all_batting)
            /\ agg_bowling' = AggregateBowling(all_bowling)
    /\ UNCHANGED <<files, all_match_data, all_market_summaries,
                   all_match_summaries, all_ball_by_ball, errors, ok_files,
                   all_batting, all_bowling,
                   matchVars, corpusVars, summaryVars, analysisVars>>

NextPlayers ==
    \/ \E file \in UploadedFiles : ProcessFile(file)
    \/ AggregatePlayers

SpecPlayers == InitPlayers /\ [][NextPlayers]_vars

----------------------------------------------------------------------------
(* Claims about the player tables (SpecPlayers) *)

(* the per-match rows of a group, by position in the list of tables *)
RefRows(tables, key) == { i \in DOMAIN tables : InGroup(tables[i], key) }

RefTotal(tables, key, column) ==
    SumOver([i \in DOMAIN tables |->
               IF InGroup(tables[i], key) THEN tables[i][key[1]][column]
               ELSE 0],
            RefRows(tables, key))

(* C8: for every player and team of the aggregated tables, runs,
   balls_faced, fours, sixes (batting) and runs_conceded, balls_bowled,
   wickets (bowling) are the sums of the player's per-match values, the
   strike rate is 100 * sum(runs) / max(sum(balls_faced), 1) and the
   economy rate is sum(runs_conceded) / (max(sum(balls_bowled), 1) / 6),
   both from the summed totals and as the two-decimal values the tables
   hold *)
C8_AggregatesFromSummedTotals ==
    pc = "returned" =>
      /\ DOMAIN agg_batting = GroupKeys(all_batting)
      /\ DOMAIN agg_bowling = GroupKeys(all_bowling)
      /\ \A key \in DOMAIN agg_batting :
           LET row == agg_batting[key]
           IN /\ row.runs = RefTotal(all_batting, key, "runs")
              /\ row.balls_faced = RefTotal(all_batting, key, "balls_faced")
              /\ row.fours = RefTotal(all_batting, key, "fours")
              /\ row.sixes = RefTotal(all_batting, key, "sixes")
              /\ row.strike_rate =
                   RoundHalfEven(100 * 100 * row.runs, Max(row.balls_faced, 1))
      /\ \A key \in DOMAIN agg_bowling :
           LET row == agg_bowling[key]
           IN /\ row.runs_conceded = RefTotal(all_bowling, key, "runs_conceded")
              /\ row.balls_bowled = RefTotal(all_bowling, key, "balls_bowled")
              /\ row.wickets = RefTotal(all_bowling, key, "wickets")
              /\ row.economy_rate =
                   RoundHalfEven(100 * 6 * row.runs_conceded,
                                 Max(row.balls_bowled, 1))

(* p1 of team A made 1 off 1 ball in one match and 0 off 2 in another: the
   aggregate is 1 off 3, strike rate 33.33, where the mean of the per-match
   rates is 50 *)
C8_Witness ==
    /\ pc = "returned"
    /\ Len(all_batting) = 2
    /\ <<"p1", "A">> \in DOMAIN agg_batting
    /\ agg_batting[<<"p1", "A">>].runs = 1
    /\ agg_batting[<<"p1", "A">>].balls_faced = 3
    /\ agg_batting[<<"p1", "A">>].strike_rate = 3333
    /\ MeanOfMatchStrikeRates(all_batting, <<"p1", "A">>) = 5000

RefLegalFaced(md, p) ==
    LET ds == FlattenInnings(md.innings)
    IN Cardinality({ i \in DOMAIN ds : ds[i].batter = p /\ IsLegal(ds[i]) })

RefLegalBowled(md, p) ==
    LET ds == FlattenInnings(md.innings)
    IN Cardinality({ i \in DOMAIN ds : ds[i].bowler = p /\ IsLegal(ds[i]) })

(* C9: in the player tables of a match, balls_faced is the number of legal
   deliveries (neither a wide nor a no-ball) the player faced and
   balls_bowled the number of legal deliveries the player bowled *)
C9_BallsAreLegalDeliveries ==
    \A i \in DOMAIN ok_files :
      /\ \A p \in DOMAIN all_batting[i] :
           all_batting[i][p].balls_faced = RefLegalFaced(ok_files[i], p)
      /\ \A p \in DOMAIN all_bowling[i] :
           all_bowling[i][p].balls_bowled = RefLegalBowled(ok_files[i], p)

----------------------------------------------------------------------------
(* SpecMarkov: calculate_markov_chain_stats over a corpus.  One step is one
   pass of the loop over data_list that collects the deliveries; the last
   step computes the dictionary, with or without the team-wise part. *)

MaxMarkovMatches == 2

LegBye == Delivery(0, 1, {"legbyes"}, <<>>)

Six == Delivery(6, 0, {}, <<>>)

Seven == Delivery(7, 0, {}, <<>>)

MarkovInnings(team) ==
    IF team = "A"
    THEN { [team |-> "A", overs |-> <<[over |-> 0, deliveries |-> <<Dot, Dot, Single>>]>>],
           [team |-> "A", overs |-> <<[over |-> 5, deliveries |-> <<Wide, Four>>],
                                      [over |-> 6, deliveries |-> <<Out>>]>>],
           [team |-> "A", overs |-> <<[over |-> 14, deliveries |-> <<Single>>],
                                      [over |-> 15, deliveries |-> <<Six, Seven>>]>>] }
    ELSE { [team |-> "B", overs |-> <<[over |-> 0, deliveries |-> <<Four, Six, Dot>>]>>],
           [team |-> "B", overs |-> <<[over |-> 6, deliveries |-> <<SingleAndOut>>],
                                      [over |-> 19, deliveries |-> <<FourAndOut>>]>>],
           [team |-> "B", overs |-> <<[over |-> 0, deliveries |-> <<Wide, LegBye>>]>>] }

MarkovInningsLists ==
    {<<>>, <<[team |-> "A", overs |-> <<[over |-> 0, deliveries |-> <<Wide>>]>>]>>}
    \cup { <<i>> : i \in MarkovInnings("A") \cup MarkovInnings("B") }
    \cup { <<i, j>> : i \in MarkovInnings("A"), j \in MarkovInnings("B") }

MarkovMatches ==
    { [teams |-> <<"A", "B">>, players |-> Squads, innings |-> is] :
         is \in MarkovInningsLists }

InitMarkov ==
    /\ pc = "extract"
    /\ markets = InitMarkets
    /\ tallies = InitTallies
    /\ corpus = <<>>
    /\ summaries = <<>>
    /\ MatchVarsIdle
    /\ SummaryVarsIdle
    /\ PlayerVarsIdle
    /\ AnalysisVarsIdle

ExtractMatch(md) ==
    /\ pc = "extract"
    /\ Len(corpus) < MaxMarkovMatches
    /\ corpus' = Append(corpus, md)
    /\ all_deliveries' = all_deliveries \o ExtractInnings(md.innings)
    /\ over_tally' = TallyInnings(over_tally, md.innings)
    /\ UNCHANGED <<pc, markets, tallies, summaries, markov_stats,
                   venue_summary, team_summary,
                   matchVars, summaryVars, playerVars>>

MarkovReturn(team_wise) ==
    /\ pc = "extract"
    /\ markov_stats' =
           <<MarkovChainStats(corpus, all_deliveries, over_tally, team_wise)>>
    /\ pc' = "returned"
    /\ UNCHANGED <<all_deliveries, over_tally, venue_summary, team_summary,
                   matchVars, corpusVars, summaryVars, playerVars>>

NextMarkov ==
    \/ \E md \in MarkovMatches : ExtractMatch(md)
    \/ \E team_wise \in BOOLEAN : MarkovReturn(team_wise)

SpecMarkov == InitMarkov /\ [][NextMarkov]_vars

----------------------------------------------------------------------------
(* Claims about the Markov statistics (SpecMarkov) *)

(* every over of the corpus, in order *)
RECURSIVE RefOversOfInnings(_)
RefOversOfInnings(is) ==
    IF is = <<>> THEN <<>> ELSE Head(is).overs \o RefOversOfInnings(Tail(is))

RECURSIVE RefOversOfCorpus(_)
RefOversOfCorpus(c) ==
    IF c = <<>> THEN <<>>
    ELSE RefOversOfInnings(Head(c).innings) \o RefOversOfCorpus(Tail(c))

RefLegalOfOver(over) ==
    Cardinality({ j \in DOMAIN over.deliveries : IsLegal(over.deliveries[j]) })

RefOverNumbers(c) ==
    { RefOversOfCorpus(c)[i].over : i \in DOMAIN RefOversOfCorpus(c) }

(* the deliveries without a wides or noballs extra in the overs whose
   number is in S *)
RefLegalIn(c, S) ==
    LET os == RefOversOfCorpus(c)
    IN SumOver([i \in DOMAIN os |-> RefLegalOfOver(os[i])],
               { i \in DOMAIN os : os[i].over \in S })

RefLegalCount(c) == RefLegalIn(c, RefOverNumbers(c))

PhaseBalls(entry) == IF entry.is = "stats" THEN entry.stats[1].balls ELSE 0

Returned == pc = "returned" /\ markov_stats # <<>>

HasStats == Returned /\ "error" \notin DOMAIN markov_stats[1]

(* C13: total_balls_analyzed is the number of deliveries of the corpus
   without a wides or noballs extra; each gets one phase tag from its over
   number (powerplay below 6, middle 6 to 14, death 15 or more), so the
   per-phase ball counts sum to total_balls_analyzed.  The dictionary holds
   these entries whenever the corpus has such a delivery. *)
C13_LegalBallsAndPhases ==
    Returned =>
      /\ HasStats <=> RefLegalCount(corpus) > 0
      /\ HasStats =>
           LET o == markov_stats[1].overall
           IN /\ o.total_balls_analyzed = RefLegalCount(corpus)
              /\ PhaseBalls(o.powerplay_stats) = RefLegalIn(corpus, { n \in RefOverNumbers(corpus) : n < 6 })
              /\ PhaseBalls(o.middle_stats) = RefLegalIn(corpus, 6..14)
              /\ PhaseBalls(o.death_stats) = RefLegalIn(corpus, { n \in RefOverNumbers(corpus) : n >= 15 })
              /\ PhaseBalls(o.powerplay_stats) + PhaseBalls(o.middle_stats)
                   + PhaseBalls(o.death_stats) = o.total_balls_analyzed
              /\ \A i \in DOMAIN all_deliveries :
                   all_deliveries[i].phase =
                     (CASE all_deliveries[i].over < 6 -> "powerplay"
                        [] all_deliveries[i].over \in 6..14 -> "middle"
                        [] OTHER -> "death")

(* a corpus with a wide and with legal deliveries in overs 5, 6, 14 and 15 *)
C13_Witness ==
    /\ HasStats
    /\ RefLegalIn(corpus, {5}) > 0
    /\ RefLegalIn(corpus, {6}) > 0
    /\ RefLegalIn(corpus, {14}) > 0
    /\ RefLegalIn(corpus, {15}) > 0
    /\ Len(FlattenInnings(corpus[1].innings)) + Len(FlattenInnings(corpus[2].innings))
          > markov_stats[1].overall.total_balls_analyzed

RECURSIVE RefDeliveriesOfCorpus(_)
RefDeliveriesOfCorpus(c) ==
    IF c = <<>> THEN <<>>
    ELSE FlattenInnings(Head(c).innings) \o RefDeliveriesOfCorpus(Tail(c))

(* the legal deliveries of the corpus with k runs off the bat *)
RefRunsCount(c, k) ==
    LET ds == RefDeliveriesOfCorpus(c)
    IN Cardinality({ i \in DOMAIN ds : IsLegal(ds[i]) /\ ds[i].runs_batter = k })

RefRunsWithinSix(c) ==
    LET ds == RefDeliveriesOfCorpus(c)
    IN \A i \in DOMAIN ds : IsLegal(ds[i]) => ds[i].runs_batter \in 0..6

(* C14: runs_k_probability, k in 0..6, is 100 * (legal deliveries with k runs
   off the bat) / (legal deliveries); when every runs-off-bat value is in
   0..6 the seven counts sum to the number of legal deliveries and the seven
   probabilities to 100. *)
C14_RunsDistribution ==
    HasStats =>
      LET p == markov_stats[1].overall.runs_probability
          n == RefLegalCount(corpus)
      IN /\ DOMAIN p = 0..6
         /\ \A k \in 0..6 :
              p[k] = [num |-> 100 * RefRunsCount(corpus, k), den |-> n]
         /\ RefRunsWithinSix(corpus) =>
              /\ SumOver([k \in 0..6 |-> RefRunsCount(corpus, k)], 0..6) = n
              /\ SumOver([k \in 0..6 |-> p[k].num], 0..6) = 100 * n

(* the corpus of six legal balls with runs off the bat 0, 0, 1, 4, 6, 0:
   three dots of six balls, one ball each for 1, 4 and 6 *)
C14_Witness ==
    /\ HasStats
    /\ Len(corpus) = 1
    /\ Len(all_deliveries) = 6
    /\ [i \in 1..6 |-> all_deliveries[i].runs_off_bat] = <<0, 0, 1, 4, 6, 0>>
    /\ markov_stats[1].overall.runs_probability[0] = [num |-> 300, den |-> 6]
    /\ markov_stats[1].overall.runs_probability[1] = [num |-> 100, den |-> 6]
    /\ markov_stats[1].overall.runs_probability[4] = [num |-> 100, den |-> 6]
    /\ markov_stats[1].overall.runs_probability[6] = [num |-> 100, den |-> 6]
    /\ markov_stats[1].overall.dot_ball_percentage = [num |-> 300, den |-> 6]

RefBattedBy(ds, team) == LET Batted(d) == d.team = team IN SelectSeq(ds, Batted)

(* the entries of a phase agree: both hold the same statistics or neither
   holds any *)
SamePhaseStats(a, b) ==
    /\ (a.is = "stats") <=> (b.is = "stats")
    /\ a.stats = b.stats

(* C15: team_stats[T] equals the overall reduction applied to the deliveries
   batted by T, for every statistic both report: ball count, mean runs per
   ball, run rate, dot/single/four/six/wicket percentages,
   runs_k_probability, the per-phase statistics, balls between wickets and
   between boundaries. *)
C15_TeamWiseIsOverallOnSubsequence ==
    (HasStats /\ markov_stats[1].team_wise) =>
      /\ DOMAIN markov_stats[1].team_stats = markov_stats[1].teams_analyzed
      /\ \A T \in Teams :
           T \in markov_stats[1].teams_analyzed
             <=> RefBattedBy(all_deliveries, T) # <<>>
      /\ \A T \in markov_stats[1].teams_analyzed :
           LET t == markov_stats[1].team_stats[T]
               r == ReduceDeliveries(RefBattedBy(all_deliveries, T))
           IN /\ t.total_balls = r.total_balls_analyzed
              /\ t.avg_runs_per_ball = r.avg_runs_per_ball
              /\ t.avg_run_rate = r.avg_run_rate
              /\ t.dot_ball_percentage = r.dot_ball_percentage
              /\ t.single_percentage = r.single_percentage
              /\ t.four_percentage = r.four_percentage
              /\ t.six_percentage = r.six_percentage
              /\ t.wicket_percentage = r.wicket_percentage
              /\ t.runs_probability = r.runs_probability
              /\ SamePhaseStats(t.powerplay_stats, r.powerplay_stats)
              /\ SamePhaseStats(t.middle_stats, r.middle_stats)
              /\ SamePhaseStats(t.death_stats, r.death_stats)
              /\ t.avg_balls_between_wickets = r.avg_balls_between_wickets
              /\ t.avg_balls_between_boundaries = r.avg_balls_between_boundaries

(* two teams with different statistics: B faced a leg bye, A has deliveries
   in the middle overs and B has none *)
C15_Witness ==
    /\ HasStats
    /\ markov_stats[1].team_wise
    /\ markov_stats[1].teams_analyzed = {"A", "B"}
    /\ markov_stats[1].team_stats["A"].middle_stats.is = "stats"
    /\ markov_stats[1].team_stats["B"].middle_stats.is = "none"
    /\ \E i \in DOMAIN all_deliveries :
          /\ all_deliveries[i].team = "B"
          /\ all_deliveries[i].total_runs # all_deliveries[i].runs_off_bat
    /\ markov_stats[1].team_stats["A"].avg_runs_per_ball
          # markov_stats[1].team_stats["B"].avg_runs_per_ball

----------------------------------------------------------------------------
(* SpecGrouping: calculate_venue_wise_stats, calculate_team_wise_stats,    *)
(* calculate_markov_chain_stats and calculate_betting_markets applied to a *)
(* list of matches drawn from a catalogue with three teams, two venues,    *)
(* decided and undecided matches, both toss winners and both decisions.    *)

MaxGroupMatches == 2

GroupInning(team) ==
    IF team = "B"
    THEN [team |-> "B",
          overs |-> <<[over |-> 0, deliveries |-> <<Out, Six, Single>>]>>]
    ELSE [team |-> team,
          overs |-> <<[over |-> 0, deliveries |-> <<Single, Wide>>],
                      [over |-> 15, deliveries |-> <<FourAndOut>>]>>]

GroupMatch(teams, venue, outcome, toss, innings) ==
    [teams |-> teams, players |-> Squads, venue |-> venue,
     outcome |-> outcome, toss |-> toss, innings |-> innings]

Toss(winner, decision) == <<[winner |-> winner, decision |-> decision]>>

GroupMatches ==
    { GroupMatch(<<"A", "B">>, <<"V">>, o, t,
                 <<GroupInning("A"), GroupInning("B")>>) :
        o \in {<<>>, <<"A">>, <<"B">>},
        t \in {Toss("A", "bat"), Toss("B", "field")} }
    \cup { GroupMatch(<<"A", "B">>, <<"V">>, <<>>, Toss("B", "bat"),
                      <<GroupInning("A"), GroupInning("B")>>) }
    \cup { GroupMatch(<<"A", "B">>, <<"W">>, <<>>, Toss("A", "field"),
                      <<GroupInning("B"), GroupInning("A")>>),
           GroupMatch(<<"A", "B">>, <<"W">>, <<"A">>, Toss("A", "bat"),
                      <<GroupInning("B"), GroupInning("A")>>) }
    \cup { GroupMatch(<<"C", "A">>, <<"V">>, o, Toss("C", "bat"),
                      <<GroupInning("C"), GroupInning("A")>>) :
             o \in {<<>>, <<"C">>} }
    \cup { GroupMatch(<<"A">>, <<"V">>, <<>>, <<>>, <<GroupInning("A")>>),
           GroupMatch(<<"A", "B">>, <<>>, <<"B">>, Toss("B", "field"),
                      <<GroupInning("C")>>),
           GroupMatch(<<"A", "B">>, <<"W">>, <<"B">>, Toss("B", "field"), <<>>),
           GroupMatch(<<"A", "B">>, <<"V">>, <<"C">>, Toss("C", "bat"), <<>>),
           GroupMatch(<<"A", "B">>, <<"W">>, <<"A">>, Toss("A", "bat"),
                      <<[team |-> "A",
                         overs |-> <<[over |-> 0, deliveries |-> <<Single>>]>>]>>) }

InitGrouping ==
    /\ pc = "group"
    /\ markets = InitMarkets
    /\ tallies = InitTallies
    /\ corpus = <<>>
    /\ summaries = <<>>
    /\ MatchVarsIdle
    /\ SummaryVarsIdle
    /\ PlayerVarsIdle
    /\ AnalysisVarsIdle

(* one more match in data_list, before either function is called *)
AddMatch(md) ==
    /\ pc = "group"
    /\ Len(corpus) < MaxGroupMatches
    /\ corpus' = Append(corpus, md)
    /\ UNCHANGED <<pc, markets, tallies, summaries,
                   matchVars, summaryVars, playerVars, analysisVars>>

(* the selected view calls one of the three analyses on data_list *)
VenueWise ==
    /\ pc = "group"
    /\ venue_summary' = <<CalculateVenueWiseStats(corpus)>>
    /\ pc' = "returned"
    /\ UNCHANGED <<all_deliveries, over_tally, markov_stats, team_summary,
                   matchVars, corpusVars, summaryVars, playerVars>>

TeamWise ==
    /\ pc = "group"
    /\ team_summary' = <<CalculateTeamWiseStats(corpus)>>
    /\ pc' = "returned"
    /\ UNCHANGED <<all_deliveries, over_tally, markov_stats, venue_summary,
                   matchVars, corpusVars, summaryVars, playerVars>>

RECURSIVE ExtractMatches(_)
ExtractMatches(data_list) ==
    IF data_list = <<>> THEN <<>>
    ELSE ExtractInnings(Head(data_list).innings)
         \o ExtractMatches(Tail(data_list))

RECURSIVE TallyMatches(_, _)
TallyMatches(t, data_list) ==
    IF data_list = <<>> THEN t
    ELSE TallyMatches(TallyInnings(t, Head(data_list).innings), Tail(data_list))

MarkovWise(team_wise) ==
    /\ pc = "group"
    /\ all_deliveries' = ExtractMatches(corpus)
    /\ over_tally' = TallyMatches(InitOverTally, corpus)
    /\ markov_stats' =
           <<MarkovChainStats(corpus, all_deliveries', over_tally', team_wise)>>
    /\ pc' = "returned"
    /\ UNCHANGED <<venue_summary, team_summary,
                   matchVars, corpusVars, summaryVars, playerVars>>

(* calculate_betting_markets on data_list *)
BettingWise ==
    /\ pc = "group"
    /\ markets' = ProcessMatchesForBettingMarkets(corpus, InitMarkets)
    /\ tallies' = ProcessMatchesForTallies(corpus, InitTallies)
    /\ summaries' = CalculateMarketSummaries(markets')
    /\ pc' = "returned"
    /\ UNCHANGED <<corpus, matchVars, summaryVars, playerVars, analysisVars>>

NextGrouping ==
    \/ BettingWise
    \/ \E md \in GroupMatches : AddMatch(md)
    \/ VenueWise
    \/ TeamWise
    \/ \E team_wise \in BOOLEAN : MarkovWise(team_wise)

SpecGrouping == InitGrouping /\ [][NextGrouping]_vars

----------------------------------------------------------------------------
(* Claims about the grouped statistics (SpecGrouping) *)

RefAtVenue(c, venue) ==
    { i \in DOMAIN c :
        (IF c[i].venue = <<>> THEN "Unknown Venue" ELSE c[i].venue[1]) = venue }

(* the match has a winner *)
RefDecisive(md) == md.outcome # <<>>

(* the match was won by the winner of its toss *)
RefTossWinnerWon(md) ==
    /\ md.outcome # <<>>
    /\ md.toss # <<>>
    /\ md.outcome[1] = md.toss[1].winner

RefDecision(md, decision) == md.toss # <<>> /\ md.toss[1].decision = decision

(* 100 * wins / matches, 0 without matches *)
RefRate(wins, matches) ==
    IF matches = 0 THEN [num |-> 0, den |-> 1]
    ELSE [num |-> 100 * wins, den |-> matches]

(* C16: for each venue, toss_win_match_win_rate is 100 * (decisive matches
   at the venue won by the toss winner) / (decisive matches at the venue);
   bat_first_win_rate and bowl_first_win_rate have as denominator the
   decisive matches at the venue whose toss decision was 'bat' and 'field';
   each rate is 0 when its denominator is 0. *)
C16_VenueRatesOverDecisiveMatches ==
    venue_summary # <<>> =>
      \A venue \in DOMAIN venue_summary[1] :
         LET s == venue_summary[1][venue]
             decisive == { i \in RefAtVenue(corpus, venue) : RefDecisive(corpus[i]) }
             Chose(decision) ==
                 { i \in decisive : RefDecision(corpus[i], decision) }
             Wins(S) == Cardinality({ i \in S : RefTossWinnerWon(corpus[i]) })
         IN /\ s.toss_win_match_win_rate
                 = RefRate(Wins(decisive), Cardinality(decisive))
            /\ s.bat_first_win_rate
                 = RefRate(Wins(Chose("bat")), Cardinality(Chose("bat")))
            /\ s.bowl_first_win_rate
                 = RefRate(Wins(Chose("field")), Cardinality(Chose("field")))

(* venue V with a match without result and a decided match that the toss
   winner won after choosing to bat; no decided match at V chose to field *)
C16_Witness ==
    /\ venue_summary # <<>>
    /\ "V" \in DOMAIN venue_summary[1]
    /\ venue_summary[1]["V"].matches = 2
    /\ \E i \in DOMAIN corpus : corpus[i].outcome = <<>> /\ corpus[i].venue = <<"V">>
    /\ venue_summary[1]["V"].toss_win_match_win_rate = [num |-> 100, den |-> 1]
    /\ venue_summary[1]["V"].bat_first_win_rate = [num |-> 100, den |-> 1]
    /\ venue_summary[1]["V"].bowl_first_win_rate = [num |-> 0, den |-> 1]

SameValue(a, b) == a.num * b.den = b.num * a.den

(* the decisive matches of the team in which it won the toss *)
RefTossWonBy(c, team) ==
    { i \in DOMAIN c :
        /\ team \in SeqRange(c[i].teams)
        /\ RefDecisive(c[i])
        /\ c[i].toss # <<>>
        /\ c[i].toss[1].winner = team }

(* C17: the conditional win rates of every team (toss_win_match_win_rate,
   bat_first_win_rate, bowl_first_win_rate) have only decisive matches in
   their denominators: a match without result in which the team won the
   toss enters none of them. *)
C17_TeamRatesOverDecisiveMatches ==
    team_summary # <<>> =>
      \A team \in DOMAIN team_summary[1] :
         LET s == team_summary[1][team]
             tossed == RefTossWonBy(corpus, team)
             Chose(decision) ==
                 { i \in tossed : RefDecision(corpus[i], decision) }
             Wins(S) == Cardinality({ i \in S : corpus[i].outcome = <<team>> })
         IN /\ SameValue(s.toss_win_match_win_rate,
                         RefRate(Wins(tossed), Cardinality(tossed)))
            /\ SameValue(s.bat_first_win_rate,
                         RefRate(Wins(Chose("bat")), Cardinality(Chose("bat"))))
            /\ SameValue(s.bowl_first_win_rate,
                         RefRate(Wins(Chose("field")),
                                 Cardinality(Chose("field"))))

(* every match lists two different teams and each of its innings is batted
   by one of them *)
RefTwoListedTeams(c) ==
    \A i \in DOMAIN c :
       /\ Len(c[i].teams) = 2
       /\ c[i].teams[1] # c[i].teams[2]
       /\ \A j \in DOMAIN c[i].innings :
             c[i].innings[j].team \in {c[i].teams[1], c[i].teams[2]}

(* the innings of the corpus: <<match, innings>> positions *)
RefInningsOf(c) ==
    UNION { { <<i, j>> : j \in DOMAIN c[i].innings } : i \in DOMAIN c }

(* the runs, legal balls or wickets of an innings *)
RefMeasure(inning, what) ==
    LET ds == FlattenOvers(inning.overs)
    IN CASE what = "runs" -> SumOver([i \in DOMAIN ds |-> ds[i].runs_total], DOMAIN ds)
         [] what = "balls" ->
              Cardinality({ i \in DOMAIN ds :
                              "wides" \notin ds[i].extras
                              /\ "noballs" \notin ds[i].extras })
         [] what = "wickets" ->
              Cardinality({ i \in DOMAIN ds : ds[i].wickets # <<>> })

(* the measure summed over the innings the team batted *)
RefBattingTotal(c, team, what) ==
    LET S == { p \in RefInningsOf(c) : c[p[1]].innings[p[2]].team = team }
    IN SumOver([p \in S |-> RefMeasure(c[p[1]].innings[p[2]], what)], S)

(* and over the innings the other team of a match of the team batted *)
RefBowlingTotal(c, team, what) ==
    LET S == { p \in RefInningsOf(c) :
                 /\ team \in SeqRange(c[p[1]].teams)
                 /\ c[p[1]].innings[p[2]].team # team }
    IN SumOver([p \in S |-> RefMeasure(c[p[1]].innings[p[2]], what)], S)

(* C18: over a corpus of two-team matches whose innings are batted by one
   of the two listed teams, the runs, legal balls and wickets of each
   innings are credited to the batting team (scored, faced, lost) and in
   equal amount to the other team of that match (conceded, bowled, taken),
   never to the batting team itself; summed over all teams,
   total_runs_scored equals total_runs_conceded. *)
C18_InningsCreditedToBothSides ==
    (team_summary # <<>> /\ RefTwoListedTeams(corpus)) =>
      LET ts == team_summary[1]
      IN /\ \A team \in DOMAIN ts :
              /\ ts[team].total_runs_scored = RefBattingTotal(corpus, team, "runs")
              /\ ts[team].total_balls_faced = RefBattingTotal(corpus, team, "balls")
              /\ ts[team].total_wickets_lost = RefBattingTotal(corpus, team, "wickets")
              /\ ts[team].total_runs_conceded = RefBowlingTotal(corpus, team, "runs")
              /\ ts[team].total_balls_bowled = RefBowlingTotal(corpus, team, "balls")
              /\ ts[team].total_wickets_taken = RefBowlingTotal(corpus, team, "wickets")
         /\ SumOver([team \in DOMAIN ts |-> ts[team].total_runs_scored], DOMAIN ts)
              = SumOver([team \in DOMAIN ts |-> ts[team].total_runs_conceded],
                        DOMAIN ts)

(* A played B and C; A is listed first against B and second against C, and
   conceded other runs than it scored *)
C18_Witness ==
    /\ team_summary # <<>>
    /\ RefTwoListedTeams(corpus)
    /\ DOMAIN team_summary[1] = {"A", "B", "C"}
    /\ team_summary[1]["A"].total_runs_scored
          # team_summary[1]["A"].total_runs_conceded
    /\ team_summary[1]["B"].total_runs_conceded > 0
    /\ team_summary[1]["C"].total_wickets_taken > 0

(* the file is malformed: json.loads rejects it, no listed player faced or
   bowled a ball, or fewer than two teams are listed *)
RefMalformed(file) ==
    \/ file.json = <<>>
    \/ LET md == file.json[1]
           ds == FlattenInnings(md.innings)
           listed == UNION { md.players[t] : t \in DOMAIN md.players }
       IN \/ \A i \in DOMAIN ds : ds[i].batter \notin listed
          \/ \A i \in DOMAIN ds : ds[i].bowler \notin listed
          \/ Len(md.teams) < 2

RefFailed(fs) == { i \in DOMAIN fs : RefMalformed(fs[i]) }

(* C19: for any sequence of uploaded files of which any subset (possibly
   all) is malformed, the error of each failing file is reported, every
   later file is still processed, and the result tables are returned: the
   run never aborts. *)
C19_RunNeverAborts ==
    /\ SeqRange(errors) = RefFailed(files)
    /\ Len(errors) = Cardinality(RefFailed(files))
    /\ Len(ok_files) = Len(files) - Cardinality(RefFailed(files))
    /\ pc # "raised"

(* the entries of a collection, by the match they were derived from *)
RefIds(rows) == { rows[i].match_id : i \in DOMAIN rows }

(* C20: when the run ends, no output collection (raw match list, market
   summaries, match summaries, ball-by-ball rows, batting and bowling
   tables) holds an entry derived from a match whose processing failed:
   every collection describes exactly the successfully processed matches. *)
C20_FailedMatchIsolated ==
    pc = "returned" =>
      LET ok == DOMAIN files \ SeqRange(errors)
      IN /\ RefIds(all_match_data) = ok
         /\ RefIds(all_market_summaries) = ok
         /\ RefIds(all_match_summaries) = ok
         /\ RefIds(all_ball_by_ball) = ok
         /\ Len(all_batting) = Cardinality(ok)
         /\ Len(all_bowling) = Cardinality(ok)

----------------------------------------------------------------------------
(* Claims about missing data and zero denominators *)

(* C21: when the corpus holds no delivery without a wides or noballs extra
   (empty corpus, matches without innings, only wides and no-balls),
   calculate_markov_chain_stats returns the error entry alone; statistics,
   with their divisions by the ball count, exist only for a positive ball
   count. *)
C21_NoDataIsOneErrorEntry ==
    Returned =>
      /\ RefLegalCount(corpus) = 0 =>
           /\ DOMAIN markov_stats[1] = {"error"}
           /\ markov_stats[1].error = "No valid deliveries found in the data"
      /\ HasStats =>
           /\ markov_stats[1].overall.total_balls_analyzed > 0
           /\ markov_stats[1].overall.avg_runs_per_ball.den > 0

(* a match without innings and a match of one wide: the error entry *)
C21_Witness ==
    /\ Returned
    /\ Len(corpus) = 2
    /\ corpus[1].innings = <<>>
    /\ Len(FlattenInnings(corpus[2].innings)) = 1
    /\ ~IsLegal(FlattenInnings(corpus[2].innings)[1])
    /\ DOMAIN markov_stats[1] = {"error"}

(* the ratios of a result, gathered for inspection *)
RefProbabilities(o) == IF o = <<>> THEN {} ELSE { o[1][k] : k \in DOMAIN o[1] }

RefOption(o) == IF o = <<>> THEN {} ELSE {o[1]}

RefVenueRatios(s) ==
    { s.avg_total_runs_per_match, s.avg_runs_per_ball, s.avg_run_rate,
      s.dot_ball_percentage, s.four_percentage, s.six_percentage,
      s.boundary_percentage, s.wicket_percentage, s.avg_first_innings,
      s.avg_second_innings, s.avg_powerplay_runs, s.avg_death_over_runs,
      s.toss_win_match_win_rate, s.bat_first_win_rate, s.bowl_first_win_rate }
    \cup RefProbabilities(s.runs_probability)

RefTeamRatios(s) ==
    { s.win_percentage, s.loss_percentage, s.toss_win_percentage,
      s.toss_win_match_win_rate, s.bat_first_win_rate, s.bowl_first_win_rate,
      s.avg_score, s.avg_runs_per_ball, s.avg_run_rate, s.strike_rate,
      s.dot_ball_percentage, s.boundary_percentage, s.avg_powerplay_runs,
      s.avg_death_over_runs, s.bowling_avg_runs_conceded,
      s.bowling_strike_rate, s.bowling_economy,
      s.avg_powerplay_runs_conceded, s.avg_death_over_runs_conceded }
    \cup RefProbabilities(s.runs_probability)

RefPhaseRatios(entry) ==
    IF entry.is # "stats" THEN {}
    ELSE LET ph == entry.stats[1]
         IN { ph.avg_runs_per_ball, ph.run_rate, ph.dot_ball_percentage,
              ph.single_percentage, ph.four_percentage, ph.six_percentage,
              ph.wicket_percentage }

RefMarkovTeamRatios(t) ==
    { t.avg_runs_per_ball, t.avg_run_rate, t.dot_ball_percentage,
      t.single_percentage, t.four_percentage, t.six_percentage,
      t.wicket_percentage, t.boundary_percentage }
    \cup { t.runs_probability[k] : k \in 0..6 }
    \cup RefPhaseRatios(t.powerplay_stats) \cup RefPhaseRatios(t.middle_stats)
    \cup RefPhaseRatios(t.death_stats)
    \cup RefOption(t.avg_balls_between_wickets)
    \cup RefOption(t.avg_balls_between_boundaries)

RefMarkovRatios(m) ==
    LET o == m.overall
    IN { o.avg_runs_per_ball, o.avg_total_runs_per_ball, o.avg_run_rate,
         o.avg_total_run_rate, o.dot_ball_percentage, o.single_percentage,
         o.four_percentage, o.six_percentage, o.wicket_percentage }
       \cup { o.runs_probability[k] : k \in 0..6 }
       \cup RefPhaseRatios(o.powerplay_stats) \cup RefPhaseRatios(o.middle_stats)
       \cup RefPhaseRatios(o.death_stats)
       \cup RefOption(o.avg_balls_between_wickets)
       \cup RefOption(o.boundary_percentage)
       \cup RefOption(o.avg_balls_between_boundaries)
       \cup { m.fours_in_over_percentages[k] : k \in DOMAIN m.fours_in_over_percentages }
       \cup { m.sixes_in_over_percentages[k] : k \in DOMAIN m.sixes_in_over_percentages }
       \cup { m.both_in_over_percentages[k] : k \in DOMAIN m.both_in_over_percentages }
       \cup { r.avg : r \in RefOption(m.first_over_runs) \cup RefOption(m.first_6_overs_runs) }
       \cup UNION { RefMarkovTeamRatios(m.team_stats[t]) : t \in DOMAIN m.team_stats }

RefZero == [num |-> 0, den |-> 1]

(* C22: for any corpus, no ratio of calculate_venue_wise_stats,
   calculate_team_wise_stats and calculate_markov_chain_stats is a division
   by zero: a ratio whose denominator (legal balls, innings, decisive
   matches, toss wins, toss decisions, wickets taken, wicket or boundary
   occurrences) is zero is reported as 0 or left out. *)
C22_ZeroDenominatorsGuarded ==
    /\ venue_summary # <<>> =>
         \A venue \in DOMAIN venue_summary[1] :
            LET s == venue_summary[1][venue]
                at == RefAtVenue(corpus, venue)
                balls == SumOver([i \in at |-> RefLegalCount(<<corpus[i]>>)], at)
                innings == SumOver([i \in at |-> Len(corpus[i].innings)], at)
            IN /\ \A r \in RefVenueRatios(s) : r.den > 0
               /\ balls = 0 =>
                    /\ s.runs_probability = <<>>
                    /\ { s.avg_runs_per_ball, s.avg_run_rate,
                         s.dot_ball_percentage, s.four_percentage,
                         s.six_percentage, s.boundary_percentage,
                         s.wicket_percentage } = {RefZero}
               /\ innings = 0 =>
                    { s.avg_total_runs_per_match, s.avg_first_innings,
                      s.avg_powerplay_runs, s.avg_death_over_runs } = {RefZero}
               /\ (\A i \in at : Len(corpus[i].innings) < 2) =>
                    s.avg_second_innings = RefZero
               /\ (\A i \in at : ~RefDecisive(corpus[i])) =>
                    { s.toss_win_match_win_rate, s.bat_first_win_rate,
                      s.bowl_first_win_rate } = {RefZero}
    /\ team_summary # <<>> =>
         \A team \in DOMAIN team_summary[1] :
            LET s == team_summary[1][team]
            IN /\ \A r \in RefTeamRatios(s) : r.den > 0
               /\ s.matches_played > 0
               /\ s.toss_won = 0 => s.toss_win_match_win_rate = RefZero
               /\ s.bat_first_matches = 0 => s.bat_first_win_rate = RefZero
               /\ s.bowl_first_matches = 0 => s.bowl_first_win_rate = RefZero
               /\ s.innings_scores = <<>> => s.avg_score = RefZero
               /\ RefBattingTotal(corpus, team, "balls") = 0 =>
                    /\ s.runs_probability = <<>>
                    /\ { s.avg_runs_per_ball, s.avg_run_rate, s.strike_rate,
                         s.dot_ball_percentage, s.boundary_percentage }
                          = {RefZero}
               /\ s.total_balls_bowled = 0 =>
                    { s.bowling_avg_runs_conceded, s.bowling_economy } = {RefZero}
               /\ s.total_wickets_taken = 0 => s.bowling_strike_rate = RefZero
    /\ markov_stats # <<>> =>
         /\ RefLegalCount(corpus) = 0 => DOMAIN markov_stats[1] = {"error"}
         /\ "error" \notin DOMAIN markov_stats[1] =>
              LET m == markov_stats[1]
                  ds == RefDeliveriesOfCorpus(corpus)
                  legal == { i \in DOMAIN ds : IsLegal(ds[i]) }
              IN /\ \A r \in RefMarkovRatios(m) : r.den > 0
                 /\ (\A i \in legal : ds[i].wickets = <<>>) =>
                      m.overall.avg_balls_between_wickets = <<>>
                 /\ (\A i \in legal : ds[i].runs_batter \notin {4, 6}) =>
                      /\ m.overall.avg_balls_between_boundaries = <<>>
                      /\ m.overall.boundary_percentage = <<>>

(* B bowled a ball without taking a wicket, never batted and never won the
   toss: its batting ratios, bowling strike rate and toss rates are 0 *)
C22_Witness ==
    /\ team_summary # <<>>
    /\ "B" \in DOMAIN team_summary[1]
    /\ team_summary[1]["B"].total_balls_bowled > 0
    /\ team_summary[1]["B"].total_wickets_taken = 0
    /\ team_summary[1]["B"].total_balls_faced = 0
    /\ team_summary[1]["B"].toss_won = 0
    /\ team_summary[1]["B"].bowling_strike_rate = RefZero
    /\ team_summary[1]["B"].strike_rate = RefZero
    /\ team_summary[1]["B"].toss_win_match_win_rate = RefZero
    /\ team_summary[1]["B"].runs_probability = <<>>

----------------------------------------------------------------------------
(* Claims about the encodings of a delivery's runs *)

(* the structured form {batter: n, extras: 0, total: n} of a delivery *)
RefStructured(d) ==
    IF "runs" \in DOMAIN d
    THEN [batter |-> d.batter, bowler |-> d.bowler, runs_batter |-> d.runs,
          runs_extras |-> 0, runs_total |-> d.runs, extras |-> d.extras,
          wickets |-> d.wickets]
    ELSE d

RefStructuredMatch(md) ==
    [md EXCEPT !.innings =
       [i \in DOMAIN md.innings |->
          [md.innings[i] EXCEPT !.overs =
             [j \in DOMAIN md.innings[i].overs |->
                [md.innings[i].overs[j] EXCEPT !.deliveries =
                   [k \in DOMAIN md.innings[i].overs[j].deliveries |->
                      RefStructured(md.innings[i].overs[j].deliveries[k])]]]]]]

RefBareFiles ==
    { i \in DOMAIN files :
        files[i].json # <<>> /\ RunsNotSubscriptable(files[i].json[1]) }

(* C23: a delivery whose runs field is a bare integer n is accepted and
   processed as batterRuns = totalRuns = n with extrasRuns = 0: the file
   causes no error and yields the aggregates of the structured form. *)
C23_BareIntegerRunsAccepted ==
    \A i \in RefBareFiles :
       LET data == RefStructuredMatch(files[i].json[1])
       IN /\ \A k \in DOMAIN errors : errors[k] # i
          /\ \E k \in DOMAIN all_market_summaries :
                all_market_summaries[k] = MarketSummaryDict(i, data)
          /\ \E k \in DOMAIN all_match_summaries :
                all_match_summaries[k] = MatchSummaryRow(i, data)

RECURSIVE RefBatterRuns(_)
RefBatterRuns(ds) ==
    IF ds = <<>> THEN 0 ELSE Head(ds).runs_batter + RefBatterRuns(Tail(ds))

RECURSIVE RefBatterPlusExtras(_)
RefBatterPlusExtras(ds) ==
    IF ds = <<>> THEN 0
    ELSE Head(ds).runs_batter + Head(ds).runs_extras
         + RefBatterPlusExtras(Tail(ds))

(* C24: for every delivery consumed, whatever the raw record contains, the
   total runs added to the totals are the batter runs plus the extras runs
   of that delivery; consequently the match's total_runs is its runs off
   the bat plus its total_runs_out. *)
C24_TotalIsBatterPlusExtras ==
    /\ ms.stats.total_runs =
          RefBatterPlusExtras(FlattenInnings(match_data.innings))
    /\ pc = "done" =>
          MatchEnd(ms).total_runs =
             RefBatterRuns(FlattenInnings(match_data.innings))
             + MatchEnd(ms).total_runs_out

----------------------------------------------------------------------------
(* Claims about the per-match summary (get_betting_market_summary_dict) *)

RefOverTotals(inning) ==
    [j \in DOMAIN inning.overs |-> TotalOfDeliveries(inning.overs[j].deliveries)]

RefHighest(totals) ==
    IF totals = <<>> THEN 0
    ELSE CHOOSE x \in SeqRange(totals) : \A y \in SeqRange(totals) : y <= x

(* C25: in the per-match summary, runs_per_over holds one total per over of
   the innings and sums to the innings' total_runs, and highest_over is the
   maximum of the per-over totals, 0 for an innings without overs. *)
C25_OverTotalsSumToInningsTotal ==
    \A i \in DOMAIN sm.inning_stats :
       LET st == sm.inning_stats[i]
       IN /\ st.runs_per_over = RefOverTotals(match_data.innings[i])
          /\ SumSeq(st.runs_per_over) = st.total_runs
          /\ st.highest_over = RefHighest(st.runs_per_over)
          /\ match_data.innings[i].overs = <<>> => st.highest_over = 0

(* an innings of two overs, the second the more expensive, next to an
   innings without overs *)
C25_Witness ==
    /\ pc = "done"
    /\ Len(sm.inning_stats) = 2
    /\ sm.inning_stats[1].runs_per_over = <<1, 4>>
    /\ sm.inning_stats[1].total_runs = 5
    /\ sm.inning_stats[1].highest_over = 4
    /\ sm.inning_stats[2].runs_per_over = <<>>
    /\ sm.inning_stats[2].highest_over = 0

----------------------------------------------------------------------------
(* Claims about the categorical outcome markets (BettingWise) *)

RefProcessed(c) == { i \in DOMAIN c : Len(c[i].teams) >= 2 }

RefWinnerIs(c, k) ==
    { i \in RefProcessed(c) : c[i].outcome = <<c[i].teams[k]>> }

RefNoWinner(c) == { i \in RefProcessed(c) : c[i].outcome = <<>> }

RefOtherWinner(c) ==
    { i \in RefProcessed(c) :
        /\ c[i].outcome # <<>>
        /\ c[i].outcome[1] \notin {c[i].teams[1], c[i].teams[2]} }

(* C26: calculate_betting_markets puts every processed match in exactly one
   match_winner bucket: team_1 or team_2 when the winner is the first or
   second listed team, no_result when the outcome names no winner, tie only
   when a winner is named that is neither listed team; the four buckets sum
   to the number of processed matches. *)
C26_MatchWinnerOneBucket ==
    (pc = "returned" /\ summaries # <<>>) =>
       LET mw == tallies.match_winner
       IN /\ mw.team_1 = Cardinality(RefWinnerIs(corpus, 1))
          /\ mw.team_2 = Cardinality(RefWinnerIs(corpus, 2))
          /\ mw.no_result = Cardinality(RefNoWinner(corpus))
          /\ mw.tie = Cardinality(RefOtherWinner(corpus))
          /\ mw.team_1 + mw.team_2 + mw.no_result + mw.tie
                = Cardinality(RefProcessed(corpus))

(* a match won by a team that is not listed next to a match without
   winner: one tie, one no_result *)
C26_Witness ==
    /\ pc = "returned"
    /\ summaries # <<>>
    /\ Len(corpus) = 2
    /\ corpus[1].teams = <<"A", "B">>
    /\ corpus[1].outcome = <<"C">>
    /\ corpus[2].teams = <<"A", "B">>
    /\ corpus[2].outcome = <<>>
    /\ tallies.match_winner =
          [team_1 |-> 0, team_2 |-> 0, tie |-> 1, no_result |-> 1]

----------------------------------------------------------------------------
(* Claims about the match results of a team (TeamWise) *)

RefPlayed(c, team) == { i \in DOMAIN c : team \in SeqRange(c[i].teams) }

RefWon(c, team) == { i \in RefPlayed(c, team) : c[i].outcome = <<team>> }

RefLost(c, team) ==
    { i \in RefPlayed(c, team) :
        /\ c[i].outcome # <<>>
        /\ c[i].outcome # <<team>>
        /\ c[i].outcome[1] \in SeqRange(c[i].teams) }

(* C27: after calculate_team_wise_stats, every match a team played is
   counted in exactly one of matches_won, matches_lost and no_results, so
   the three sum to matches_played, and win_percentage times matches_played
   is 100 times matches_won. *)
C27_ResultsPartitionMatchesPlayed ==
    team_summary # <<>> =>
       \A team \in DOMAIN team_summary[1] :
          LET s == team_summary[1][team]
          IN /\ s.matches_played = Cardinality(RefPlayed(corpus, team))
             /\ s.matches_won = Cardinality(RefWon(corpus, team))
             /\ s.matches_lost = Cardinality(RefLost(corpus, team))
             /\ s.no_results =
                   Cardinality(RefPlayed(corpus, team)
                               \ (RefWon(corpus, team) \cup RefLost(corpus, team)))
             /\ s.matches_won + s.matches_lost + s.no_results = s.matches_played
             /\ s.win_percentage.num * s.matches_played
                   = 100 * s.matches_won * s.win_percentage.den

(* A played two matches, won one and saw the other go to a team that is not
   listed: one win, no loss, one no result, win percentage one half *)
C27_Witness ==
    /\ team_summary # <<>>
    /\ "A" \in DOMAIN team_summary[1]
    /\ \E i \in DOMAIN corpus : corpus[i].outcome = <<"C">> /\ corpus[i].teams = <<"A", "B">>
    /\ team_summary[1]["A"].matches_played = 2
    /\ team_summary[1]["A"].matches_won = 1
    /\ team_summary[1]["A"].matches_lost = 0
    /\ team_summary[1]["A"].no_results = 1
    /\ SameValue(team_summary[1]["A"].win_percentage, Whole(50))

----------------------------------------------------------------------------
(* Claims about the order of the corpus (BettingWise) *)

RefPermutations(n) ==
    { p \in [1..n -> 1..n] : \A i \in 1..n : \E j \in 1..n : p[j] = i }

RefPermuted(c, p) == [i \in DOMAIN c |-> c[p[i]]]

(* C28: the summaries of calculate_betting_markets do not depend on the
   order of the corpus: for any permutation of the same matches every
   categorical tally and, for every numeric market, count, average, median,
   min, max and the over/under counts of every line are identical. *)
C28_SummariesIgnoreCorpusOrder ==
    (pc = "returned" /\ summaries # <<>>) =>
       \A p \in RefPermutations(Len(corpus)) :
          LET permuted == RefPermuted(corpus, p)
          IN /\ ProcessMatchesForTallies(permuted, InitTallies) = tallies
             /\ CalculateMarketSummaries(
                    ProcessMatchesForBettingMarkets(permuted, InitMarkets))
                  = summaries

(* two matches whose total runs differ, so that the samples of the two
   orders differ while their summaries agree *)
C28_Witness ==
    /\ pc = "returned"
    /\ summaries # <<>>
    /\ markets["total_runs"] = <<13, 0>>
    /\ ProcessMatchesForBettingMarkets(
           RefPermuted(corpus, <<2, 1>>), InitMarkets)["total_runs"] = <<0, 13>>
    /\ summaries["total_runs"][1].median = 13
    /\ summaries["total_runs"][1].min = 0
    /\ tallies.match_winner.team_2 = 1
    /\ tallies.match_winner.no_result = 1

----------------------------------------------------------------------------
(* Claims about skipped matches (SpecCorpus) *)

C29_Step ==
    (pc = "loop" /\ Len(corpus') = Len(corpus) + 1) =>
       /\ Len(Last(corpus').teams) < 2 =>
             /\ markets' = markets
             /\ tallies' = tallies
             /\ pc' = "loop"
       /\ markets' =
             ProcessMatchesForBettingMarkets(TwoTeamMatches(corpus'), InitMarkets)
       /\ tallies' =
             ProcessMatchesForTallies(TwoTeamMatches(corpus'), InitTallies)

(* C29: a match that lists fewer than two teams is skipped by
   calculate_betting_markets without effect: every market sample and every
   categorical tally is what it was before that match, and processing
   continues with the next match, so samples and tallies are those of the
   two-team matches alone. *)
C29_FewerThanTwoTeamsSkipped == [][C29_Step]_vars

(* a one-team match with a scoring innings was skipped and the two-team
   match after it was processed *)
C29_Witness ==
    /\ Len(corpus) = 2
    /\ Len(corpus[1].teams) = 1
    /\ RefMatchTotal(corpus[1]) > 0
    /\ HasTwoTeams(corpus[2])
    /\ markets["total_runs"] = <<RefMatchTotal(corpus[2])>>
    /\ RefMatchTotal(corpus[2]) > 0
    /\ tallies.match_winner.no_result = 1
    /\ tallies.first_ball_dot.yes + tallies.first_ball_dot.no = 1

----------------------------------------------------------------------------
(* SpecWindows: get_betting_market_summary_dict applied to one match whose
   first innings has overs numbered at the edges of the three windows *)

MaxWindowOvers == 2

WindowOverNumbers == {0, 5, 6, 12, 13, 19, 20}

WindowScripts == { <<Single>>, <<Four, Wide>> }

(* lists of overs with increasing over numbers *)
WindowOvers ==
    UNION { { os \in [1..n -> [over : WindowOverNumbers,
                               deliveries : WindowScripts]] :
                \A j \in 1..(n - 1) : os[j].over < os[j + 1].over } :
            n \in 0..MaxWindowOvers }

LateInnings ==
    [team |-> "B", overs |-> <<[over |-> 20, deliveries |-> <<Single>>]>>]

WindowInningsLists ==
    {<<>>}
    \cup { <<[team |-> "A", overs |-> os]>> : os \in WindowOvers }
    \cup { <<[team |-> "A", overs |-> os], LateInnings>> : os \in WindowOvers }

RECURSIVE SummaryDeliveries(_, _)
SummaryDeliveries(s, ds) ==
    IF ds = <<>> THEN s ELSE SummaryDeliveries(SummaryBall(s, Head(ds)), Tail(ds))

RECURSIVE SummaryOvers(_, _)
SummaryOvers(s, os) ==
    IF os = <<>> THEN s
    ELSE SummaryOvers(
             SummaryDeliveries(SummaryOver(s, Head(os)), Head(os).deliveries),
             Tail(os))

RECURSIVE SummaryInnings(_, _)
SummaryInnings(s, is) ==
    IF is = <<>> THEN s
    ELSE SummaryInnings(
             SummaryInningsEnd(
                 SummaryOvers(SummaryInningsStart(s, Head(is).team),
                              Head(is).overs),
                 Head(is)),
             Tail(is))

InitWindows ==
    /\ pc = "summary"
    /\ MatchVarsIdle
    /\ markets = InitMarkets
    /\ tallies = InitTallies
    /\ corpus = <<>>
    /\ summaries = <<>>
    /\ SummaryVarsIdle
    /\ PlayerVarsIdle
    /\ AnalysisVarsIdle

(* the whole call: it raises in the player summaries or returns the
   dictionary *)
SummariseMatch(is) ==
    /\ pc = "summary"
    /\ match_data' = [match_data EXCEPT !.innings = is]
    /\ IF PlayerSummariesRaise(match_data')
       THEN /\ pc' = "raised"
            /\ UNCHANGED <<sm, summary>>
       ELSE /\ sm' = SummaryInnings(InitSm, is)
            /\ summary' = <<SummaryDict(sm')>>
            /\ pc' = "returned"
    /\ UNCHANGED <<ms, corpusVars, summaryVars, playerVars, analysisVars>>

NextWindows == \E is \in WindowInningsLists : SummariseMatch(is)

SpecWindows == InitWindows /\ [][NextWindows]_vars

RefWindowsSum(st) ==
    st.powerplay_runs + st.runs_overs_7_13 + st.runs_overs_14_20

(* the total runs of the overs numbered n or higher *)
RECURSIVE RefRunsFrom(_, _)
RefRunsFrom(os, n) ==
    IF os = <<>> THEN 0
    ELSE (IF Head(os).over >= n THEN TotalOfDeliveries(Head(os).deliveries) ELSE 0)
         + RefRunsFrom(Tail(os), n)

(* C30: in the per-match summary, for an innings whose over numbers all lie
   in 0..19, powerplay_runs + runs_overs_7_13 + runs_overs_14_20 is the
   innings' total_runs; the runs of an over numbered 20 or higher are part
   of total_runs and of none of the three windows. *)
C30_WindowsPartitionTwentyOvers ==
    /\ \A i \in DOMAIN sm.inning_stats :
          LET st == sm.inning_stats[i]
              os == match_data.innings[i].overs
          IN /\ (\A j \in DOMAIN os : os[j].over \in 0..19) =>
                    RefWindowsSum(st) = st.total_runs
             /\ st.total_runs = TotalOfOvers(os)
             /\ RefWindowsSum(st) = st.total_runs - RefRunsFrom(os, 20)
             /\ st.powerplay_runs = RefRunsBelow(os, 6)
             /\ st.runs_overs_14_20 = RefRunsFrom(os, 13) - RefRunsFrom(os, 20)
    /\ summary # <<>> =>
          LET d == summary[1]
              is == match_data.innings
          IN /\ (Len(is) > 0 /\ \A j \in DOMAIN is[1].overs :
                                    is[1].overs[j].over \in 0..19) =>
                   d.Innings_1_Runs_Overs_1_6 + d.Innings_1_Runs_Overs_7_13
                     + d.Innings_1_Runs_Overs_14_20 = d.Innings_1_Runs
             /\ (Len(is) > 1 /\ \A j \in DOMAIN is[2].overs :
                                    is[2].overs[j].over \in 0..19) =>
                   d.Innings_2_Runs_Overs_1_6 + d.Innings_2_Runs_Overs_7_13
                     + d.Innings_2_Runs_Overs_14_20 = d.Innings_2_Runs

(* a first innings of overs 6 and 13, which the windows partition, and a
   second innings of one over numbered 20, in no window *)
C30_Witness ==
    /\ pc = "returned"
    /\ summary # <<>>
    /\ Len(match_data.innings) = 2
    /\ summary[1].Innings_1_Runs = 6
    /\ summary[1].Innings_1_Runs_Overs_1_6 = 0
    /\ summary[1].Innings_1_Runs_Overs_7_13 = 5
    /\ summary[1].Innings_1_Runs_Overs_14_20 = 1
    /\ summary[1].Innings_2_Runs = 1
    /\ summary[1].Innings_2_Runs_Overs_1_6 + summary[1].Innings_2_Runs_Overs_7_13
         + summary[1].Innings_2_Runs_Overs_14_20 = 0

====
